---- MODULE Spec2Model ----
(***************************************************************************)
(* YinPitchTracker: the per-frame pitch pipeline (PitchEngine, Yin, the    *)
(* DSP helpers, the smoothers and the note utilities) as a state machine.  *)
(*                                                                         *)
(* Numbers.  The program computes in IEEE floating point.  The model       *)
(* computes in fixed point and rounds every result to its resolution:      *)
(*   samples                 1.0   = 100   (hundredths)                    *)
(*   RMS, thresholds, Q,                                                   *)
(*   filter coefficients,                                                  *)
(*   alpha, d'(tau), lags    1.0   = 1000  (thousandths)                   *)
(*   frequencies             1 Hz  = 1000  (millihertz)                    *)
(*   note numbers, cents     1 semitone = 1000 (tenths of a cent)          *)
(* The values a float can take besides a finite number (NaN, +-Infinity)   *)
(* and JavaScript's null/undefined are kept apart by a tag.                *)
(***************************************************************************)
EXTENDS Integers, Sequences, FiniteSets, TLC

----------------------------------------------------------------------------
(* Tagged numbers *)

Num(x) == [k |-> "num", v |-> x]
NaN == [k |-> "nan", v |-> 0]
Inf(s) == [k |-> "inf", v |-> s]
Null == [k |-> "null", v |-> 0]

IsNum(x) == x.k = "num"

\* JavaScript truthiness of a number-or-null: 0, NaN and null are falsy.
Truthy(x) == (x.k = "num" /\ x.v # 0) \/ x.k = "inf"

\* isFinite(x)
isFinite(x) == x.k = "num"

\* x > 0 for a tagged number (false for NaN and null)
GtZero(x) == (x.k = "num" /\ x.v > 0) \/ (x.k = "inf" /\ x.v > 0)

\* a < b on floats: false as soon as one side is NaN
Lt(a, b) ==
  /\ a.k = "num"
  /\ b.k = "num"
  /\ a.v < b.v

Abs(n) == IF n < 0 THEN -n ELSE n

Sign(n) == IF n < 0 THEN -1 ELSE IF n > 0 THEN 1 ELSE 0

\* a / b rounded to the nearest integer (b # 0), for either sign
SDiv(a, b) ==
  LET q == (2 * Abs(a) + Abs(b)) \div (2 * Abs(b))
  IN IF Sign(a) * Sign(b) < 0 THEN -q ELSE q

\* floor(r * 10^k / d) for 0 <= r < d, one decimal digit at a time
RECURSIVE FixDigits(_, _, _)
FixDigits(r, d, k) ==
  IF k = 0 THEN 0
  ELSE LET digit == (r * 10) \div d
           rest == (r * 10) % d
           tail == FixDigits(rest, d, k - 1)
       IN digit * (10 ^ (k - 1)) + tail

\* floor(n * 1000 / d) for n >= 0, d > 0 without forming n * 1000
FixDiv(n, d) == (n \div d) * 1000 + FixDigits(n % d, d, 3)

\* floor(sqrt(n)) by bisection on [lo, hi)
RECURSIVE SqrtBetween(_, _, _)
SqrtBetween(n, lo, hi) ==
  IF hi - lo <= 1 THEN lo
  ELSE LET mid == (lo + hi) \div 2
       IN IF mid * mid <= n THEN SqrtBetween(n, mid, hi)
          ELSE SqrtBetween(n, lo, mid)

\* Math.sqrt on a non-negative integer, rounded down
Sqrt(n) == SqrtBetween(n, 0, 46341)

RECURSIVE SumSeq(_)
SumSeq(s) == IF s = <<>> THEN 0 ELSE Head(s) + SumSeq(Tail(s))

\* The element of a one-element set.  Only({F(x) : x \in {e}}) is F(e), with
\* e worked out once, before F is entered.
Only(S) == CHOOSE x \in S : TRUE

----------------------------------------------------------------------------
(* core/dsp/rms.ts *)

\* sumSquares of calculateRMS's loop
SumSquares(frame) == SumSeq([i \in 1..Len(frame) |-> frame[i] * frame[i]])

\* calculateRMS: sqrt(sumSquares / frame.length); 0/0 is NaN for an empty
\* frame.  The result is in thousandths (samples are hundredths), so it is
\* 0 only when every sample is 0.
calculateRMS(frame) ==
  IF Len(frame) = 0 THEN NaN
  ELSE Num(Sqrt((SumSquares(frame) * 100) \div Len(frame)))

----------------------------------------------------------------------------
(* core/dsp/noise.ts *)

\* normalizeFrame(frame, targetRMS)
normalizeFrame(frame, targetRMS) ==
  LET rms == calculateRMS(frame)
  IN IF rms = Num(0) THEN frame
     ELSE IF rms.k = "nan" THEN frame  \* gain is NaN; the empty frame has no sample to scale
     ELSE [i \in 1..Len(frame) |-> SDiv(frame[i] * targetRMS, rms.v)]

\* softNoiseGate(frame, threshold): rms >= thr is false for a NaN rms
softNoiseGate(frame, threshold) ==
  LET rms == calculateRMS(frame)
  IN IF rms.k = "num" /\ rms.v >= threshold THEN frame
     ELSE IF rms.k = "nan" THEN frame  \* attenuation is NaN; the empty frame has no sample to scale
     ELSE [i \in 1..Len(frame) |-> SDiv(frame[i] * rms.v, threshold)]

\* applyNoiseControl(frame, config)
applyNoiseControl(frame, config) ==
  LET normalized == IF config.enableNormalization
                    THEN normalizeFrame(frame, config.normalizationTargetRMS)
                    ELSE frame
  IN IF config.enableNoiseGate
     THEN softNoiseGate(normalized, config.noiseGateThreshold)
     ELSE normalized

\* The divisors of the divisions normalizeFrame performs, in order:
\* frame.length in calculateRMS, then rms in desired / rms
normalizeFrameDivisors(frame) ==
  LET rms == calculateRMS(frame)
  IN <<Num(Len(frame))>> \o (IF rms = Num(0) THEN <<>> ELSE <<rms>>)

\* The divisors of the divisions softNoiseGate performs, in order:
\* frame.length in calculateRMS, then thr in rms / thr
softNoiseGateDivisors(frame, threshold) ==
  LET rms == calculateRMS(frame)
  IN <<Num(Len(frame))>>
       \o (IF rms.k = "num" /\ rms.v >= threshold THEN <<>>
           ELSE <<Num(threshold)>>)

\* The divisors of the divisions applyNoiseControl performs, in order
applyNoiseControlDivisors(frame, config) ==
  LET normalized == IF config.enableNormalization
                    THEN normalizeFrame(frame, config.normalizationTargetRMS)
                    ELSE frame
  IN (IF config.enableNormalization
      THEN normalizeFrameDivisors(frame) ELSE <<>>)
       \o (IF config.enableNoiseGate
           THEN softNoiseGateDivisors(normalized, config.noiseGateThreshold)
           ELSE <<>>)

----------------------------------------------------------------------------
(* core/dsp/filters.ts *)

\* Math.cos of k sixteenths of a turn, in thousandths
CosTable == <<1000, 924, 707, 383, 0, -383, -707, -924,
              -1000, -924, -707, -383, 0, 383, 707, 924>>

\* w0 = 2*pi*cutoff/sampleRate as a number of sixteenths of a turn (mod 16);
\* the sample rates and cutoffs of the model make it a whole number.
\* sampleRate = 0 (w0 infinite, every coefficient NaN) is outside the model.
Turn16(cutoff, sampleRate) == SDiv(16 * cutoff, sampleRate) % 16

Cos(cutoff, sampleRate) == CosTable[Turn16(cutoff, sampleRate) + 1]

Sin(cutoff, sampleRate) == CosTable[((Turn16(cutoff, sampleRate) + 12) % 16) + 1]

\* new BiquadFilter(a0, a1, a2, b1, b2): the delay state starts at (0, 0)
BiquadFilter(a0, a1, a2, b1, b2) ==
  [a0 |-> a0, a1 |-> a1, a2 |-> a2, b1 |-> b1, b2 |-> b2, z1 |-> 0, z2 |-> 0]

\* createHighPassFilter(cutoff, sampleRate, Q)
createHighPassFilter(cutoff, sampleRate, Q) ==
  LET cos == Cos(cutoff, sampleRate)
      sin == Sin(cutoff, sampleRate)
      alpha == SDiv(sin * 1000, 2 * Q)
      b0 == SDiv(1000 + cos, 2)
      b1 == -(1000 + cos)
      b2 == SDiv(1000 + cos, 2)
      a0 == 1000 + alpha
      a1 == -2 * cos
      a2 == 1000 - alpha
  IN BiquadFilter(SDiv(b0 * 1000, a0), SDiv(b1 * 1000, a0), SDiv(b2 * 1000, a0),
                  SDiv(a1 * 1000, a0), SDiv(a2 * 1000, a0))

\* createLowPassFilter(cutoff, sampleRate, Q)
createLowPassFilter(cutoff, sampleRate, Q) ==
  LET cos == Cos(cutoff, sampleRate)
      sin == Sin(cutoff, sampleRate)
      alpha == SDiv(sin * 1000, 2 * Q)
      b0 == SDiv(1000 - cos, 2)
      b1 == 1000 - cos
      b2 == SDiv(1000 - cos, 2)
      a0 == 1000 + alpha
      a1 == -2 * cos
      a2 == 1000 - alpha
  IN BiquadFilter(SDiv(b0 * 1000, a0), SDiv(b1 * 1000, a0), SDiv(b2 * 1000, a0),
                  SDiv(a1 * 1000, a0), SDiv(a2 * 1000, a0))

\* One iteration of BiquadFilter.processFrame's loop.  z1, z2 and output are
\* kept in units of 1e-5 (sample times coefficient); the stored sample out[i]
\* is rounded back to hundredths.
BiquadStep(f, input) ==
  LET output == input * f.a0 + f.z1
      z1 == input * f.a1 + f.z2 - SDiv(f.b1 * output, 1000)
      z2 == input * f.a2 - SDiv(f.b2 * output, 1000)
  IN [filter |-> [f EXCEPT !.z1 = z1, !.z2 = z2], out |-> SDiv(output, 1000)]

\* The loop of BiquadFilter.processFrame(frame) over samples lo..hi, entered
\* with the filter in state f: the filter after it and the output it wrote.
\* The range is run as its first half followed by its second half.
RECURSIVE BiquadLoop(_, _, _, _)
BiquadSecondHalf(first, frame, mid, hi) ==
  Only({[filter |-> second.filter, out |-> first.out \o second.out] :
          second \in {BiquadLoop(first.filter, frame, mid + 1, hi)}})

BiquadLoop(f, frame, lo, hi) ==
  IF lo > hi THEN [filter |-> f, out |-> <<>>]
  ELSE IF lo = hi
  THEN Only({[filter |-> step.filter, out |-> <<step.out>>] :
               step \in {BiquadStep(f, frame[lo])}})
  ELSE Only({BiquadSecondHalf(first, frame, (lo + hi) \div 2, hi) :
               first \in {BiquadLoop(f, frame, lo, (lo + hi) \div 2)}})

\* BiquadFilter.processFrame(frame) of a filter in state f: the filter as it
\* was before the frame (start), as it is after it (filter), and the output
BiquadProcessFrame(f, frame) ==
  [start |-> f] @@ BiquadLoop(f, frame, 1, Len(frame))

\* A cutoff of 0 (or less) disables the filter: the frame passes untouched
FilterOff(frame) == [on |-> FALSE, start |-> Null, filter |-> Null, out |-> frame]

\* The high-pass step of applyFilters.  The filter is made by
\* createHighPassFilter inside the call, so every frame meets a new filter.
applyHighPass(frame, sampleRate, config) ==
  IF config.highPassCutoff > 0
  THEN [on |-> TRUE] @@ BiquadProcessFrame(
         createHighPassFilter(config.highPassCutoff, sampleRate, config.highPassQ),
         frame)
  ELSE FilterOff(frame)

\* The low-pass step of applyFilters, likewise with a filter of its own
applyLowPass(frame, sampleRate, config) ==
  IF config.lowPassCutoff > 0
  THEN [on |-> TRUE] @@ BiquadProcessFrame(
         createLowPassFilter(config.lowPassCutoff, sampleRate, config.lowPassQ),
         frame)
  ELSE FilterOff(frame)

\* What applyFilters returns once the high-pass step is done, with both
\* filter runs: hp/lp are the filters before the frame, hpEnd/lpEnd after it
\* (hpOn/lpOn: whether that filter ran at all).
FiltersRun(hpRun, lpRun) ==
  [processed |-> lpRun.out,
   hpOn |-> hpRun.on, hp |-> hpRun.start, hpEnd |-> hpRun.filter,
   lpOn |-> lpRun.on, lp |-> lpRun.start, lpEnd |-> lpRun.filter]

\* The low-pass step applied to the output of the high-pass step
AfterHighPass(hpRun, sampleRate, config) ==
  Only({FiltersRun(hpRun, lpRun) :
          lpRun \in {applyLowPass(hpRun.out, sampleRate, config)}})

\* applyFilters(frame, sampleRate, config), with the filters it made
applyFiltersRun(frame, sampleRate, config) ==
  Only({AfterHighPass(hpRun, sampleRate, config) :
          hpRun \in {applyHighPass(frame, sampleRate, config)}})

\* applyFilters(frame, sampleRate, config): the processed frame
applyFilters(frame, sampleRate, config) ==
  applyFiltersRun(frame, sampleRate, config).processed

----------------------------------------------------------------------------
(* core/yin.ts *)

\* A faulty step 1 that compares each sample with the one a lag of tau + 1
\* after it.  C5 fails on it.
DifferenceOffByOne(buffer, tau) ==
  LET halfBufferSize == Len(buffer) \div 2
  IN SumSeq([j \in 1..halfBufferSize |->
               (buffer[j] - buffer[j + tau + 1]) * (buffer[j] - buffer[j + tau + 1])])

\* Step 1: yinBuffer[tau] = sum over i < halfBufferSize of
\* (buffer[i] - buffer[i + tau])^2   (sequences are 1-based)
Difference(buffer, tau) ==
  LET halfBufferSize == Len(buffer) \div 2
  IN SumSeq([j \in 1..halfBufferSize |->
               (buffer[j] - buffer[j + tau]) * (buffer[j] - buffer[j + tau])])

\* A faulty CMND: a zero running sum yields 0 rather than NaN.  C3 fails on it.
CMNDZeroForSilence(sum, tau, runningSum) ==
  IF runningSum = 0 THEN Num(0) ELSE Num(FixDiv(sum * tau, runningSum))

\* Step 2, one lag: yinBuffer[tau] *= tau / runningSum.  With runningSum = 0
\* the difference is 0 too, and 0 * (tau / 0) is NaN.
CMND(sum, tau, runningSum) ==
  IF runningSum = 0 THEN NaN ELSE Num(FixDiv(sum * tau, runningSum))

\* Steps 1 and 2 up to lag tau: runningSum and yinBuffer[0..tau] (as a
\* sequence, yinBuffer[0] first; yinBuffer[0] = 1)
RECURSIVE CMNDLoop(_, _)
CMNDLoop(buffer, tau) ==
  IF tau = 0 THEN [runningSum |-> 0, yinBuffer |-> <<Num(1000)>>]
  ELSE Only({[runningSum |-> before.runningSum + sum,
              yinBuffer |-> Append(before.yinBuffer,
                                   CMND(sum, tau, before.runningSum + sum))] :
               before \in {CMNDLoop(buffer, tau - 1)},
               sum \in {Difference(buffer, tau)}})

\* yinBuffer after steps 1 and 2, indexed 0 .. halfBufferSize - 1
YinBuffer(buffer) ==
  IF Len(buffer) < 2 THEN [tau \in {} |-> NaN]
  ELSE Only({[tau \in 0..((Len(buffer) \div 2) - 1) |-> filled[tau + 1]] :
               filled \in {CMNDLoop(buffer, (Len(buffer) \div 2) - 1).yinBuffer}})

\* A faulty step 3 without the inner while loop: the first lag under the
\* threshold is taken, not the local minimum after it.  C16 fails on it.
FirstLagUnderThreshold(yinBuffer, tau) == tau

\* The inner while loop of step 3: walk to the local minimum
RECURSIVE WalkToMinimum(_, _)
WalkToMinimum(yinBuffer, tau) ==
  LET halfBufferSize == Cardinality(DOMAIN yinBuffer)
  IN IF tau + 1 < halfBufferSize /\ Lt(yinBuffer[tau + 1], yinBuffer[tau])
     THEN WalkToMinimum(yinBuffer, tau + 1)
     ELSE tau

\* Step 3: the for loop from tau on; -1 when no lag is under the threshold
RECURSIVE ThresholdScan(_, _, _)
ThresholdScan(yinBuffer, threshold, tau) ==
  LET halfBufferSize == Cardinality(DOMAIN yinBuffer)
  IN IF tau >= halfBufferSize THEN -1
     ELSE IF Lt(yinBuffer[tau], Num(threshold)) THEN WalkToMinimum(yinBuffer, tau)
     ELSE ThresholdScan(yinBuffer, threshold, tau + 1)

\* Yin.parabolicInterpolation(buffer, tau): the refined lag, in thousandths
parabolicInterpolation(yinBuffer, tau) ==
  LET length == Cardinality(DOMAIN yinBuffer)
      x0 == IF tau < 1 THEN tau ELSE tau - 1
      x2 == IF tau + 1 < length THEN tau + 1 ELSE tau
      s0 == yinBuffer[x0]
      s1 == yinBuffer[tau]
      s2 == yinBuffer[x2]
      numer == s2.v - s0.v
      denom == 2 * (2 * s1.v - s2.v - s0.v)
  IN IF x0 = tau \/ x2 = tau THEN Num(tau * 1000)
     ELSE IF ~(IsNum(s0) /\ IsNum(s1) /\ IsNum(s2)) THEN NaN
     ELSE IF denom = 0 THEN (IF numer = 0 THEN NaN ELSE Inf(Sign(numer)))
     ELSE Num(tau * 1000 + SDiv(numer * 1000, denom))

\* sampleRate / betterTau, in millihertz
LagToFrequency(sampleRate, betterTau) ==
  IF betterTau.k = "nan" THEN NaN
  ELSE IF betterTau.k = "inf" THEN Num(0)
  ELSE IF betterTau.v = 0
       THEN (IF sampleRate = 0 THEN NaN ELSE Inf(Sign(sampleRate)))
  ELSE Num(SDiv(sampleRate * 1000000, betterTau.v))

\* The indexes of the frame that step 1 reads, buffer[i] and buffer[i + tau],
\* counted from 0 as the code counts them
FrameIndexesRead(bufferSize) ==
  LET halfBufferSize == bufferSize \div 2
  IN UNION {{i, i + tau} : i \in 0..(halfBufferSize - 1),
                           tau \in 1..(halfBufferSize - 1)}

\* The indexes of yinBuffer that steps 1 and 2 read and write: every tau of
\* the two loops, and 0, which is written outside any loop
YinIndexesFilled(bufferSize) ==
  LET halfBufferSize == bufferSize \div 2
  IN {0} \cup 1..(halfBufferSize - 1)

\* The indexes of yinBuffer that step 3 reads when it ends with tauEstimate:
\* every tau up to it, and tau + 1 in the last test of the while loop if
\* tau + 1 < halfBufferSize
YinIndexesScanned(bufferSize, tauEstimate) ==
  LET halfBufferSize == bufferSize \div 2
  IN IF tauEstimate = -1 THEN 2..(halfBufferSize - 1)
     ELSE 2..tauEstimate
          \cup (IF tauEstimate + 1 < halfBufferSize
                THEN {tauEstimate + 1} ELSE {})

\* The indexes of yinBuffer that parabolicInterpolation and step 5 read
YinIndexesInterpolated(bufferSize, tau) ==
  LET length == bufferSize \div 2
      x0 == IF tau < 1 THEN tau ELSE tau - 1
      x2 == IF tau + 1 < length THEN tau + 1 ELSE tau
  IN IF tau = -1 THEN {}
     ELSE IF x0 = tau \/ x2 = tau THEN {tau}
     ELSE {x0, tau, x2}

\* Every index of yinBuffer that detectPitch reads or writes
YinIndexesUsed(bufferSize, tauEstimate) ==
  YinIndexesFilled(bufferSize)
    \cup YinIndexesScanned(bufferSize, tauEstimate)
    \cup YinIndexesInterpolated(bufferSize, tauEstimate)

\* A faulty step 5 that reports the normalised difference itself as the
\* probability, not 1 minus it.  C18 fails on it.
PitchAtLagReportingDifference(yinBuffer, sampleRate, tauEstimate) ==
  IF tauEstimate = -1
  THEN [pitch |-> Null, probability |-> Num(0), tau |-> -1]
  ELSE [pitch |-> LagToFrequency(sampleRate,
                                 parabolicInterpolation(yinBuffer, tauEstimate)),
        probability |-> Num(yinBuffer[tauEstimate].v),
        tau |-> tauEstimate]

\* Steps 4 and 5 and the return statements: the result for the lag step 3 found
PitchAtLag(yinBuffer, sampleRate, tauEstimate) ==
  IF tauEstimate = -1
  THEN [pitch |-> Null, probability |-> Num(0), tau |-> -1]
  ELSE [pitch |-> LagToFrequency(sampleRate,
                                 parabolicInterpolation(yinBuffer, tauEstimate)),
        probability |-> Num(1000 - yinBuffer[tauEstimate].v),
        tau |-> tauEstimate]

\* Steps 3 to 5 on the yinBuffer steps 1 and 2 filled
PitchFromYinBuffer(yinBuffer, sampleRate, threshold) ==
  Only({PitchAtLag(yinBuffer, sampleRate, tauEstimate) :
          tauEstimate \in {ThresholdScan(yinBuffer, threshold, 2)}})

\* Yin.detectPitch(buffer) of a Yin made with {sampleRate, threshold}
detectPitch(buffer, sampleRate, threshold) ==
  Only({PitchFromYinBuffer(yinBuffer, sampleRate, threshold) :
          yinBuffer \in {YinBuffer(SubSeq(buffer, 1, Len(buffer)))}})

----------------------------------------------------------------------------
(* Strings are sequences of one-character strings: "A4" is <<"A", "4">>. *)

Undefined == [k |-> "undefined", v |-> 0]

\* a string value, where undefined or null may stand instead
Str(chars) == [k |-> "str", v |-> chars]

\* What a call leaves when it throws a TypeError instead of returning
TypeError == [k |-> "throw", v |-> 0]

\* Tests of what a value is, by its tag
IsUndefined(x) == x.k = "undefined"
IsNull(x) == x.k = "null"
Threw(x) == "k" \in DOMAIN x /\ x.k = "throw"

DigitChars == <<"0", "1", "2", "3", "4", "5", "6", "7", "8", "9">>

IsDigit(c) == \E i \in 1..10 : DigitChars[i] = c

DigitValue(c) == (CHOOSE i \in 1..10 : DigitChars[i] = c) - 1

\* the decimal digits of n >= 0
RECURSIVE NatToChars(_)
NatToChars(n) ==
  IF n < 10 THEN <<DigitChars[n + 1]>>
  ELSE Append(NatToChars(n \div 10), DigitChars[(n % 10) + 1])

\* `${n}` for an integer n
IntToChars(n) == IF n < 0 THEN <<"-">> \o NatToChars(-n) ELSE NatToChars(n)

\* the value of a run of decimal digits
RECURSIVE DigitsValue(_)
DigitsValue(s) ==
  IF s = <<>> THEN 0
  ELSE DigitsValue(SubSeq(s, 1, Len(s) - 1)) * 10 + DigitValue(s[Len(s)])

IsDigits(s) == Len(s) >= 1 /\ \A i \in 1..Len(s) : IsDigit(s[i])

\* String.prototype.trim (the only white space of the model is " ")
RECURSIVE TrimLeft(_)
TrimLeft(s) == IF s # <<>> /\ Head(s) = " " THEN TrimLeft(Tail(s)) ELSE s

RECURSIVE TrimRight(_)
TrimRight(s) ==
  IF s # <<>> /\ s[Len(s)] = " " THEN TrimRight(SubSeq(s, 1, Len(s) - 1)) ELSE s

Trim(s) == TrimRight(TrimLeft(s))

----------------------------------------------------------------------------
(* core/note-utils.ts *)

A4_FREQUENCY == 440

NOTES_SHARP == << <<"C">>, <<"C", "#">>, <<"D">>, <<"D", "#">>, <<"E">>, <<"F">>,
                 <<"F", "#">>, <<"G">>, <<"G", "#">>, <<"A">>, <<"A", "#">>, <<"B">> >>

NOTES_FLAT == << <<"C">>, <<"D", "b">>, <<"D">>, <<"E", "b">>, <<"E">>, <<"F">>,
                <<"G", "b">>, <<"G">>, <<"A", "b">>, <<"A">>, <<"B", "b">>, <<"B">> >>

\* 2^(k/24) for k = 0..24, in millionths: the quarter tones of one octave
QuarterTones ==
  <<1000000, 1029302, 1059463, 1090508, 1122462, 1155353, 1189207, 1224054,
    1259921, 1296840, 1334840, 1373954, 1414214, 1455653, 1498307, 1542211,
    1587401, 1633915, 1681793, 1731073, 1781797, 1834008, 1887749, 1943064,
    2000000>>

\* n / d = m * 2^e with 1 <= m < 2 (n, d > 0): the scaled pair and e
RECURSIVE Normalise(_, _, _)
Normalise(n, d, e) ==
  IF n < d THEN Normalise(2 * n, d, e - 1)
  ELSE IF n >= 2 * d THEN Normalise(n, 2 * d, e + 1)
  ELSE [n |-> n, d |-> d, e |-> e]

\* Math.log2(n / d) for n, d > 0, in units of 1/12000 (tenths of a cent):
\* exact at every quarter tone, interpolated linearly between two of them
Log2(n, d) ==
  LET norm == Normalise(n, d, 0)
      m == 1000000 + FixDigits(norm.n % norm.d, norm.d, 6)
      q == CHOOSE i \in 0..23 : QuarterTones[i + 1] <= m /\ m < QuarterTones[i + 2]
      lo == QuarterTones[q + 1]
      hi == QuarterTones[q + 2]
  IN 12000 * norm.e + 500 * q + SDiv(500 * (m - lo), hi - lo)

\* hz * Math.pow(2, s / 12) for a whole number of semitones s and a whole
\* number of Hz (hz is in millihertz)
RECURSIVE Pow2Semitones(_, _)
Pow2Semitones(hz, s) ==
  IF s < 0 THEN SDiv(Pow2Semitones(hz, s + 12), 2)
  ELSE IF s >= 12 THEN 2 * Pow2Semitones(hz, s - 12)
  ELSE (hz \div 1000) * (QuarterTones[2 * s + 1] \div 1000)
       + SDiv((hz \div 1000) * (QuarterTones[2 * s + 1] % 1000), 1000)

\* JavaScript's a % b: the remainder has the sign of a
JsRem(a, b) == IF a >= 0 THEN a % b ELSE -((-a) % b)

\* table[index] of a JavaScript array: undefined outside 0 .. length - 1
ArrayGet(table, index) ==
  IF index >= 0 /\ index < Len(table) THEN Str(table[index + 1]) ELSE Undefined

\* sorted[index] of a JavaScript array of numbers
ArrayGetNum(table, index) ==
  IF index >= 0 /\ index < Len(table) THEN Num(table[index + 1]) ELSE Undefined

\* table.indexOf(name): -1 when the name is no entry
IndexOf(table, name) ==
  IF \E i \in 1..Len(table) : table[i] = name
  THEN (CHOOSE i \in 1..Len(table) : table[i] = name) - 1
  ELSE -1

\* chooseSmartAccidental(sharp, flat): reading .length of undefined throws
chooseSmartAccidental(sharp, flat) ==
  IF IsUndefined(sharp) \/ IsUndefined(flat) THEN TypeError
  ELSE IF Len(sharp.v) < Len(flat.v) THEN sharp
  ELSE flat

\* noteNumber = 12 * log2(frequency / A4) + 69, in thousandths of a semitone
NoteNumber(hz) == Log2(hz, A4_FREQUENCY * 1000) + 69000

\* Math.round: half-way cases go up
MathRound(x, unit) == (2 * x + unit) \div (2 * unit)

\* frequencyToNote(frequency): {note, frequency, cents}, or TypeError when
\* the name lookup is undefined
frequencyToNote(frequency) ==
  IF ~Truthy(frequency) \/ ~GtZero(frequency)
  THEN [note |-> <<"U", "n", "k", "n", "o", "w", "n">>, frequency |-> Num(0), cents |-> 0]
  ELSE IF frequency.k = "inf" THEN TypeError  \* Infinity % 12 is NaN
  ELSE LET noteNumber == NoteNumber(frequency.v)
           roundedNote == MathRound(noteNumber, 1000)
           cents == MathRound(noteNumber - roundedNote * 1000, 10)
           noteNameSharp == ArrayGet(NOTES_SHARP, JsRem(roundedNote, 12))
           noteNameFlat == ArrayGet(NOTES_FLAT, JsRem(roundedNote, 12))
           noteName == chooseSmartAccidental(noteNameSharp, noteNameFlat)
           octave == (roundedNote \div 12) - 1
       IN IF Threw(noteName) THEN TypeError
          ELSE [note |-> noteName.v \o IntToChars(octave),
                frequency |-> frequency,
                cents |-> cents]

\* /^\d+(\.\d+)?$/.test(text)
IsNumberText(text) ==
  \/ IsDigits(text)
  \/ \E dot \in 1..Len(text) :
        /\ text[dot] = "."
        /\ IsDigits(SubSeq(text, 1, dot - 1))
        /\ IsDigits(SubSeq(text, dot + 1, Len(text)))

\* parseFloat of a text IsNumberText accepts, in millihertz (digits after the
\* third decimal are dropped)
parseFloat(text) ==
  IF IsDigits(text) THEN DigitsValue(text) * 1000
  ELSE LET dot == CHOOSE i \in 1..Len(text) : text[i] = "."
           whole == SubSeq(text, 1, dot - 1)
           decimals == SubSeq(text \o <<"0", "0", "0">>, dot + 1, dot + 3)
       IN DigitsValue(whole) * 1000 + DigitsValue(decimals)

\* /^([A-Ga-g])([#b]?)(-?\d)$/.exec(text): the groups, or Null
NoteMatch(text) ==
  LET letters == {"A", "B", "C", "D", "E", "F", "G", "a", "b", "c", "d", "e", "f", "g"}
      n == Len(text)
      hasAccidental == n >= 3 /\ text[2] \in {"#", "b"}
      rest == IF hasAccidental THEN SubSeq(text, 3, n) ELSE SubSeq(text, 2, n)
      octaveOk == \/ (Len(rest) = 1 /\ IsDigit(rest[1]))
                  \/ (Len(rest) = 2 /\ rest[1] = "-" /\ IsDigit(rest[2]))
  IN IF n >= 2 /\ text[1] \in letters /\ octaveOk
     THEN [k |-> "match",
           letter |-> text[1],
           accidental |-> IF hasAccidental THEN <<text[2]>> ELSE <<>>,
           octaveStr |-> rest]
     ELSE Null

\* letter.toUpperCase()
ToUpperCase(c) ==
  CASE c = "a" -> "A" [] c = "b" -> "B" [] c = "c" -> "C" [] c = "d" -> "D"
    [] c = "e" -> "E" [] c = "f" -> "F" [] c = "g" -> "G" [] OTHER -> c

\* parseInt(octaveStr, 10)
parseInt(octaveStr) ==
  IF Head(octaveStr) = "-" THEN -DigitsValue(Tail(octaveStr))
  ELSE DigitsValue(octaveStr)

Max(a, b) == IF a >= b THEN a ELSE b

\* parseExpectedNote(input): Hz (in millihertz) or Null
parseExpectedNote(input) ==
  LET match == NoteMatch(Trim(input))
      octave == parseInt(match.octaveStr)
      name == <<ToUpperCase(match.letter)>> \o match.accidental
      indexSharp == IndexOf(NOTES_SHARP, name)
      indexFlat == IndexOf(NOTES_FLAT, name)
      semitone == Max(indexSharp, indexFlat)
      midi == semitone + (octave + 1) * 12
  IN IF IsNumberText(Trim(input)) THEN Num(parseFloat(Trim(input)))
     ELSE IF "letter" \notin DOMAIN match THEN Null
     ELSE Num(Pow2Semitones(A4_FREQUENCY * 1000, midi - 69))

\* centsOffFromReference(freq, expected) = 1200 * Math.log2(freq / expected),
\* in tenths of a cent: 0 / 0 is NaN, x / 0 is Infinity for x > 0,
\* Math.log2(0) is -Infinity and Math.log2 of a negative number is NaN
centsOffFromReference(freq, expected) ==
  IF expected = 0 THEN (IF freq > 0 THEN Inf(1) ELSE NaN)
  ELSE IF freq = 0 THEN Inf(-1)
  ELSE IF Sign(freq) # Sign(expected) THEN NaN
  ELSE Num(Log2(Abs(freq), Abs(expected)))

----------------------------------------------------------------------------
(* core/dsp/smoothing.ts *)

\* new MedianSmoother(maxSize)
MedianSmoother(maxSize) == [window |-> <<>>, maxSize |-> maxSize]

\* A faulty window update that drops the value just pushed, not the oldest,
\* when the window is full.  C12 fails on it.
MedianWindowKeepingOldest(m, value) ==
  IF ~isFinite(value) THEN m.window
  ELSE LET pushed == Append(m.window, value.v)
       IN IF Len(pushed) > m.maxSize THEN SubSeq(pushed, 1, Len(pushed) - 1)
          ELSE pushed

\* this.window after MedianSmoother.push(value)
MedianWindowAfter(m, value) ==
  IF ~isFinite(value) THEN m.window
  ELSE LET pushed == Append(m.window, value.v)
       IN IF Len(pushed) > m.maxSize THEN Tail(pushed) ELSE pushed

\* A faulty sort that leaves the window in arrival order.  C14 fails on it.
Unsorted(window) == window

\* [...this.window].sort((a, b) => a - b)
Sorted(window) == SortSeq(window, LAMBDA a, b : a < b)

\* A faulty return value: the lower of the two middle elements of a window
\* of even length.  C13 fails on it.
MedianValueLowerMiddle(m, value) ==
  LET sorted == Sorted(MedianWindowAfter(m, value))
  IN IF ~isFinite(value) THEN value
     ELSE ArrayGetNum(sorted, (Len(sorted) - 1) \div 2)

\* the value MedianSmoother.push(value) returns
MedianValue(m, value) ==
  LET sorted == Sorted(MedianWindowAfter(m, value))
  IN IF ~isFinite(value) THEN value
     ELSE ArrayGetNum(sorted, Len(sorted) \div 2)

\* MedianSmoother.push(value): the smoother after the call and what it returns
MedianPush(m, value) ==
  [smoother |-> [m EXCEPT !.window = MedianWindowAfter(m, value)],
   value |-> MedianValue(m, value)]

\* new MovingAverage(alpha)
MovingAverage(alpha) == [alpha |-> alpha, smoothed |-> Null]

\* c * x for a coefficient c and an infinite x: 0 * Infinity is NaN
ScaledInfinity(c, x) == IF c = 0 THEN NaN ELSE Inf(Sign(c) * x.v)

\* A faulty MovingAverage.push with the two weights exchanged:
\* (1 - alpha) * value + alpha * smoothed.  C15 fails on it.
MovingAverageNextSwapped(e, value) ==
  IF IsNull(e.smoothed) THEN value
  ELSE IF IsNum(value) /\ IsNum(e.smoothed)
       THEN Num(SDiv((1000 - e.alpha) * value.v + e.alpha * e.smoothed.v, 1000))
  ELSE NaN

\* this.smoothed after MovingAverage.push(value)
MovingAverageNext(e, value) ==
  LET left == IF value.k = "inf" THEN ScaledInfinity(e.alpha, value) ELSE value
      right == IF e.smoothed.k = "inf"
               THEN ScaledInfinity(1000 - e.alpha, e.smoothed) ELSE e.smoothed
  IN IF IsNull(e.smoothed) THEN value
     ELSE IF IsNum(left) /\ IsNum(right)
          THEN Num(SDiv(e.alpha * left.v + (1000 - e.alpha) * right.v, 1000))
     ELSE IF left.k = "nan" \/ right.k = "nan" THEN NaN
     ELSE IF left.k = "inf" /\ right.k = "inf"
          THEN (IF left.v = right.v THEN left ELSE NaN)
     ELSE IF left.k = "inf" THEN left
     ELSE right

\* MovingAverage.push(value): the smoother after the call and what it returns
MovingAveragePush(e, value) ==
  [smoother |-> [e EXCEPT !.smoothed = MovingAverageNext(e, value)],
   value |-> MovingAverageNext(e, value)]

----------------------------------------------------------------------------
(* core/dsp/dsp-config.ts *)

EMBEDDED_DEFAULTS ==
  [highPassCutoff |-> 50,
   lowPassCutoff |-> 0,
   highPassQ |-> 707,
   lowPassQ |-> 707,
   noiseGateThreshold |-> 20,
   enableNoiseGate |-> TRUE,
   enableNormalization |-> TRUE,
   normalizationTargetRMS |-> 250,
   enableMedianSmoothing |-> TRUE,
   medianWindowSize |-> 5,
   enableMovingAverage |-> TRUE,
   movingAverageAlpha |-> 350,
   frameSize |-> 2048]

\* defaultDSPConfig: no dsp-config.json is found, so the embedded defaults
defaultDSPConfig == EMBEDDED_DEFAULTS

\* { ...base, ...override }: every field of override replaces base's
Merge(base, override) == override @@ base

\* {} : a Partial<DSPConfig> that supplies no field
EmptyConfig == [f \in {} |-> 0]

\* whether an options or Partial<DSPConfig> object supplies the field
Has(object, field) == field \in DOMAIN object

----------------------------------------------------------------------------
(* core/pitch-engine.ts *)

\* new Yin({ sampleRate, threshold: 0.10 })
YinThreshold == 100

\* n.toFixed(digits) of a number given in thousandths, digits = 1 or 2
ToFixed(milli, digits) ==
  LET unit == IF digits = 1 THEN 100 ELSE 10
      scaled == SDiv(Abs(milli), unit)
      whole == scaled \div (1000 \div unit)
      part == scaled % (1000 \div unit)
      padded == IF digits = 2 /\ part < 10 THEN <<"0">> \o NatToChars(part)
                ELSE NatToChars(part)
  IN (IF milli < 0 THEN <<"-">> ELSE <<>>)
     \o NatToChars(whole) \o <<".">> \o padded

\* `${hz.toFixed(2)} Hz`
HzText(hz) == ToFixed(hz, 2) \o <<" ", "H", "z">>

\* PitchEngine.normalizeExpected(input): Hz (millihertz) or Null.
\* input is [t |-> "number", n |-> millihertz] or [t |-> "string", s |-> chars].
normalizeExpected(input) ==
  IF input.t = "number"
  THEN (IF input.n > 0 THEN Num(input.n) ELSE Null)
  ELSE LET parsed == parseExpectedNote(input.s)
       IN IF Truthy(parsed) /\ GtZero(parsed) THEN parsed ELSE Null

\* PitchEngine.describeExpected(input, hz)
describeExpected(input, hz) ==
  LET letters == {"A", "B", "C", "D", "E", "F", "G", "a", "b", "c", "d", "e", "f", "g"}
  IN IF input.t = "string" /\ \E i \in 1..Len(input.s) : input.s[i] \in letters
     THEN Trim(input.s)
     ELSE HzText(hz)

\* PitchEngine.formatDeviation(cents), cents in tenths of a cent
formatDeviation(cents) ==
  LET sign == IF cents >= 0 THEN <<"+">> ELSE <<>>
      mag == ToFixed(Abs(cents) * 100, 1)
      dir == IF cents >= 0 THEN <<"s", "h", "a", "r", "p">> ELSE <<"f", "l", "a", "t">>
  IN sign \o mag \o <<" ", "c", "e", "n", "t", "s", " ">> \o dir

\* A faulty step 6 that does not look at the detected frequency: a deviation
\* is attached as soon as the expected note resolves.  C7 fails on it.
ExpectedFieldsIgnoringFrequency(opts, frequency) ==
  LET given == Has(opts, "expectedNote")
      expectedHz == normalizeExpected(opts.expectedNote)
  IN IF ~given THEN [expectedNote |-> Undefined, deviation |-> Undefined]
     ELSE IF Truthy(expectedHz)
     THEN [expectedNote |-> Str(describeExpected(opts.expectedNote, expectedHz.v)),
           deviation |-> Str(formatDeviation(0))]
     ELSE [expectedNote |-> IF opts.expectedNote.t = "number"
                            THEN Str(HzText(opts.expectedNote.n))
                            ELSE Str(opts.expectedNote.s),
           deviation |-> Undefined]

\* A faulty step 6 without the else branch: an expected note that does not
\* resolve, or has no frequency to compare with, is not echoed.  C25 fails
\* on it.
ExpectedFieldsWithoutEcho(opts, frequency) ==
  LET given == Has(opts, "expectedNote")
      expectedHz == normalizeExpected(opts.expectedNote)
      cents == centsOffFromReference(frequency.v, expectedHz.v)
  IN IF ~given THEN [expectedNote |-> Undefined, deviation |-> Undefined]
     ELSE IF Truthy(expectedHz) /\ Truthy(frequency) /\ GtZero(frequency)
     THEN [expectedNote |-> Str(describeExpected(opts.expectedNote, expectedHz.v)),
           deviation |-> Str(formatDeviation(cents.v))]
     ELSE [expectedNote |-> Undefined, deviation |-> Undefined]

\* The expectedNote and deviation fields step 6 of processFrame attaches
ExpectedFields(opts, frequency) ==
  LET given == Has(opts, "expectedNote")
      expectedHz == normalizeExpected(opts.expectedNote)
      cents == centsOffFromReference(frequency.v, expectedHz.v)
  IN IF ~given THEN [expectedNote |-> Undefined, deviation |-> Undefined]
     ELSE IF Truthy(expectedHz) /\ Truthy(frequency) /\ GtZero(frequency)
     THEN [expectedNote |-> Str(describeExpected(opts.expectedNote, expectedHz.v)),
           deviation |-> Str(formatDeviation(cents.v))]
     ELSE [expectedNote |-> IF opts.expectedNote.t = "number"
                            THEN Str(HzText(opts.expectedNote.n))
                            ELSE Str(opts.expectedNote.s),
           deviation |-> Undefined]

\* smoothedPitch ?? null
OrNull(x) == IF IsUndefined(x) THEN Null ELSE x

\* A faulty step 3 with the smoothers in the other order: EMA first, median
\* on the EMA's output.  C8 fails on it.
SmoothingStepEmaFirst(median, ema, pitch, doSmooth) ==
  LET e == MovingAveragePush(ema, pitch)
      m == MedianPush(median, e.value)
  IN IF doSmooth /\ Truthy(pitch) /\ isFinite(pitch)
     THEN [median |-> m.smoother, ema |-> e.smoother, smoothedPitch |-> m.value]
     ELSE [median |-> median, ema |-> ema, smoothedPitch |-> pitch]

\* A faulty step 3 that starts the smoothers afresh whenever nothing is
\* pushed.  C9 fails on it.
SmoothingStepResetOnGap(median, ema, pitch, doSmooth) ==
  LET m == MedianPush(median, pitch)
      e == MovingAveragePush(ema, m.value)
  IN IF doSmooth /\ Truthy(pitch) /\ isFinite(pitch)
     THEN [median |-> m.smoother, ema |-> e.smoother, smoothedPitch |-> e.value]
     ELSE [median |-> MedianSmoother(median.maxSize),
           ema |-> MovingAverage(ema.alpha), smoothedPitch |-> pitch]

\* Step 3 of processFrame: the smoothers after the call and smoothedPitch
SmoothingStep(median, ema, pitch, doSmooth) ==
  LET m == MedianPush(median, pitch)
      e == MovingAveragePush(ema, m.value)
  IN IF doSmooth /\ Truthy(pitch) /\ isFinite(pitch)
     THEN [median |-> m.smoother, ema |-> e.smoother, smoothedPitch |-> e.value]
     ELSE [median |-> median, ema |-> ema, smoothedPitch |-> pitch]

\* Steps 4 to 6 of processFrame: the result it returns (TypeError when
\* frequencyToNote throws) for the frequency step 3 left in smoothedPitch
BuildResult(opts, frameRMS, probability, frequency) ==
  IF Truthy(frequency) /\ GtZero(frequency)
  THEN (IF Threw(frequencyToNote(frequency)) THEN TypeError
        ELSE [frequency |-> frequency,
              confidence |-> probability,
              frameRMS |-> frameRMS,
              note |-> Str(frequencyToNote(frequency).note)]
             @@ ExpectedFields(opts, frequency))
  ELSE [frequency |-> frequency,
        confidence |-> probability,
        frameRMS |-> frameRMS,
        note |-> Undefined]
       @@ ExpectedFields(opts, frequency)

\* processFrame from step 4 on, with what the earlier steps computed
AfterSmoothing(opts, cfg, filters, frameRMS, yin, smooth) ==
  [result |-> BuildResult(opts, frameRMS, yin.probability,
                          OrNull(smooth.smoothedPitch)),
   median |-> smooth.median,
   ema |-> smooth.ema,
   cfg |-> cfg,
   filters |-> filters,
   pitch |-> yin.pitch,
   probability |-> yin.probability]

\* A faulty step 3 that smooths only while the effective configuration's
\* enableMedianSmoothing and enableMovingAverage are set, through a median
\* window of cfg.medianWindowSize.  C30 fails on it.
AfterYinHonouringConfig(median, ema, opts, cfg, filters, frameRMS, yin) ==
  Only({AfterSmoothing(opts, cfg, filters, frameRMS, yin, smooth) :
          smooth \in {SmoothingStep([median EXCEPT !.maxSize = cfg.medianWindowSize],
                                    ema, yin.pitch,
                                    /\ (IF Has(opts, "smoothing") THEN opts.smoothing
                                        ELSE TRUE)
                                    /\ cfg.enableMedianSmoothing
                                    /\ cfg.enableMovingAverage)}})

\* processFrame from step 3 on: doSmooth = opts.smoothing ?? true
AfterYin(median, ema, opts, cfg, filters, frameRMS, yin) ==
  Only({AfterSmoothing(opts, cfg, filters, frameRMS, yin, smooth) :
          smooth \in {SmoothingStep(median, ema, yin.pitch,
                                    IF Has(opts, "smoothing") THEN opts.smoothing
                                    ELSE TRUE)}})

\* A faulty processFrame that measures the RMS after the noise control.
\* C19 fails on it.
AfterFiltersMeasuringProcessed(sampleRate, median, ema, opts, cfg, filters) ==
  Only({AfterYin(median, ema, opts, cfg, filters, frameRMS, yin) :
          frameRMS \in {calculateRMS(applyNoiseControl(filters.processed, cfg))},
          yin \in {detectPitch(applyNoiseControl(filters.processed, cfg),
                               sampleRate, YinThreshold)}})

\* processFrame after applyFilters: the RMS of the filtered frame, then the
\* noise control, then step 2, YIN on the processed frame
AfterFilters(sampleRate, median, ema, opts, cfg, filters) ==
  Only({AfterYin(median, ema, opts, cfg, filters, frameRMS, yin) :
          frameRMS \in {calculateRMS(filters.processed)},
          yin \in {detectPitch(applyNoiseControl(filters.processed, cfg),
                               sampleRate, YinThreshold)}})

\* processFrame with cfg = { ...this.dspConfig, ...(opts.advancedConfig ?? {}) }
ProcessWith(sampleRate, median, ema, frame, opts, cfg) ==
  Only({AfterFilters(sampleRate, median, ema, opts, cfg, filters) :
          filters \in {applyFiltersRun(frame, sampleRate, cfg)}})

\* PitchEngine.processFrame(frame, opts) on an engine whose fields are
\* sampleRate, dspConfig, median and ema: what it returns (result, TypeError
\* when it throws), the smoothers it leaves, and what it computed on the way.
processFrame(sampleRate, dspConfig, median, ema, frame, opts) ==
  Only({ProcessWith(sampleRate, median, ema, frame, opts, cfg) :
          cfg \in {Merge(dspConfig, IF Has(opts, "advancedConfig")
                                    THEN opts.advancedConfig ELSE EmptyConfig)}})

\* A faulty updateConfig that changes the parameters of the smoothers it
\* has, keeping what they hold.  C10 fails on it.
updateConfigInPlace(dspConfig, median, ema, config) ==
  [dspConfig |-> Merge(dspConfig, config),
   median |-> IF Has(config, "medianWindowSize") /\ config.medianWindowSize # 0
              THEN [median EXCEPT !.maxSize = config.medianWindowSize] ELSE median,
   ema |-> IF Has(config, "movingAverageAlpha") /\ config.movingAverageAlpha # 0
           THEN [ema EXCEPT !.alpha = config.movingAverageAlpha] ELSE ema]

\* PitchEngine.updateConfig(config): the engine's fields after the call
updateConfig(dspConfig, median, ema, config) ==
  [dspConfig |-> Merge(dspConfig, config),
   median |-> IF Has(config, "medianWindowSize") /\ config.medianWindowSize # 0
              THEN MedianSmoother(config.medianWindowSize) ELSE median,
   ema |-> IF Has(config, "movingAverageAlpha") /\ config.movingAverageAlpha # 0
           THEN MovingAverage(config.movingAverageAlpha) ELSE ema]

----------------------------------------------------------------------------
(* The engine as a state machine *)

VARIABLES
  sampleRate,   \* PitchEngine.sampleRate
  dspConfig,    \* PitchEngine.dspConfig
  median,       \* PitchEngine.median
  ema,          \* PitchEngine.ema
  result,       \* what the last processFrame call returned (TypeError: it threw)
  last,         \* the last operation on the engine: its inputs, what it computed
  calls,        \* number of processFrame calls so far
  yin,          \* PitchEngine.yin, with the buffer handed to detectPitch and its answer
  peer,         \* a second PitchEngine instance in the same module, if any
  app           \* the browser app's live tuner (frontend/app.ts), if loaded

vars == <<sampleRate, dspConfig, median, ema, result, last, calls, yin, peer, app>>

\* no second engine instance; the browser app is not loaded
NoPeer == Null
NoApp == Null

\* Bounds of the model
MaxCalls == 2
MaxStream == 3
MaxZeroLen == 12
ToneLen == 18

\* One period of a sine of amplitude 1.0 over 12, 8, 4 and 3 samples
Sine12 == <<0, 50, 87, 100, 87, 50, 0, -50, -87, -100, -87, -50>>
Sine8 == <<0, 71, 100, 71, 0, -71, -100, -71>>
Sine4 == <<0, 100, 0, -100>>
Sine3 == <<0, 87, -87>>

\* One period of a 16-sample sine of amplitude 0.2: smooth enough for the
\* normalised difference to fall under the threshold one lag before its minimum
Sine16 == <<0, 8, 14, 18, 20, 18, 14, 8, 0, -8, -14, -18, -20, -18, -14, -8>>

\* Two periods of the 4-sample sine, the crest of the second a little lower:
\* the signal repeats exactly after 8 samples and nearly after 4
Uneven8 == <<0, 100, 0, -100, 0, 90, 0, -100>>

\* n samples of the periodic signal whose period is table
Periodic(table, n) == [i \in 1..n |-> table[((i - 1) % Len(table)) + 1]]

ZeroFrame(n) == [i \in 1..n |-> 0]

IsZeroFrame(frame) == \A i \in 1..Len(frame) : frame[i] = 0

Tone8 == Periodic(Sine8, ToneLen)
Tone4 == Periodic(Sine4, ToneLen)
Tone3 == Periodic(Sine3, ToneLen)

A4Text == [t |-> "string", s |-> <<"A", "4">>]
H9Text == [t |-> "string", s |-> <<"H", "9">>]

\* The processFrame calls the engine is driven with: frame and options
Calls ==
  {[frame |-> <<>>, opts |-> EmptyConfig],
   [frame |-> ZeroFrame(MaxZeroLen), opts |-> [expectedNote |-> A4Text]],
   [frame |-> <<50, -50, 50>>, opts |-> EmptyConfig],
   [frame |-> Tone8, opts |-> EmptyConfig],
   [frame |-> Tone4, opts |-> EmptyConfig],
   [frame |-> Tone8, opts |-> [smoothing |-> FALSE]],
   [frame |-> Tone4, opts |-> [smoothing |-> FALSE,
                               expectedNote |-> [t |-> "number", n |-> 100000]]],
   [frame |-> Tone8, opts |-> [expectedNote |-> A4Text]],
   [frame |-> Tone8, opts |-> [expectedNote |-> H9Text]],
   [frame |-> Tone4, opts |-> [expectedNote |-> [t |-> "number", n |-> 0]]],
   [frame |-> Tone8, opts |-> [smoothing |-> TRUE,
                               advancedConfig |-> [highPassCutoff |-> 0]]]}

\* The updateConfig calls the engine is driven with
UpdateConfigs ==
  {[medianWindowSize |-> 3],
   [movingAverageAlpha |-> 500],
   [medianWindowSize |-> 0, movingAverageAlpha |-> 0],
   [lowPassCutoff |-> 400, frameSize |-> -1]}

\* The engines the model constructs: new PitchEngine(rate, config)
Engines ==
  {[rate |-> 800, config |-> EmptyConfig],
   [rate |-> 800, config |-> [highPassCutoff |-> 0, medianWindowSize |-> 3]],
   [rate |-> 50, config |-> [highPassCutoff |-> 0]],
   [rate |-> -100, config |-> [frameSize |-> 0]]}

NoFilters ==
  [processed |-> <<>>, hpOn |-> FALSE, hp |-> Null, hpEnd |-> Null,
   lpOn |-> FALSE, lp |-> Null, lpEnd |-> Null]

\* `last` when the last operation was the constructor
Constructed(config) ==
  [op |-> "constructor", frame |-> <<>>, opts |-> EmptyConfig, config |-> config,
   cfg |-> EmptyConfig, filters |-> NoFilters, pitch |-> Null,
   probability |-> Null, medianBefore |-> Null, emaBefore |-> Null]

\* this.yin = new Yin({ sampleRate, threshold: 0.10 }), not yet used
NewYin(rate) ==
  [sampleRate |-> rate, buffer |-> <<>>, done |-> FALSE,
   pitch |-> Null, probability |-> Null, tau |-> -1]

\* constructor(sampleRate, config): every field but this.yin
ConstructFields(engine) ==
  /\ sampleRate = engine.rate
  /\ dspConfig = Merge(defaultDSPConfig, engine.config)
  /\ median = MedianSmoother(Merge(defaultDSPConfig, engine.config).medianWindowSize)
  /\ ema = MovingAverage(Merge(defaultDSPConfig, engine.config).movingAverageAlpha)
  /\ result = Null
  /\ last = Constructed(engine.config)
  /\ calls = 0

\* constructor(sampleRate, config)
Construct(engine) ==
  /\ ConstructFields(engine)
  /\ yin = NewYin(engine.rate)
  /\ peer = NoPeer
  /\ app = NoApp

Init == \E engine \in Engines : Construct(engine)

\* A faulty processFrame that keeps the call's effective configuration as the
\* engine's stored one.  C11 fails on it.
ProcessFrameStoringOverride(frame, opts) ==
  /\ \E r \in {processFrame(sampleRate, dspConfig, median, ema, frame, opts)} :
        /\ median' = r.median
        /\ ema' = r.ema
        /\ result' = r.result
        /\ dspConfig' = r.cfg
        /\ last' = [op |-> "processFrame", frame |-> frame, opts |-> opts,
                    config |-> EmptyConfig, cfg |-> r.cfg, filters |-> r.filters,
                    pitch |-> r.pitch, probability |-> r.probability,
                    medianBefore |-> median, emaBefore |-> ema]
  /\ calls' = calls + 1
  /\ UNCHANGED <<sampleRate, yin, peer, app>>

\* engine.processFrame(frame, opts)
ProcessFrame(frame, opts) ==
  /\ \E r \in {processFrame(sampleRate, dspConfig, median, ema, frame, opts)} :
        /\ median' = r.median
        /\ ema' = r.ema
        /\ result' = r.result
        /\ last' = [op |-> "processFrame", frame |-> frame, opts |-> opts,
                    config |-> EmptyConfig, cfg |-> r.cfg, filters |-> r.filters,
                    pitch |-> r.pitch, probability |-> r.probability,
                    medianBefore |-> median, emaBefore |-> ema]
  /\ calls' = calls + 1
  /\ UNCHANGED <<sampleRate, dspConfig, yin, peer, app>>

\* A faulty updateConfig that merges the fields into a configuration object
\* every instance reads.  C27 fails on it.
UpdateConfigOfEveryInstance(config) ==
  /\ \E u \in {updateConfig(dspConfig, median, ema, config)} :
        /\ dspConfig' = u.dspConfig
        /\ median' = u.median
        /\ ema' = u.ema
  /\ last' = [Constructed(config) EXCEPT !.op = "updateConfig",
                !.medianBefore = median, !.emaBefore = ema]
  /\ peer' = IF Has(peer, "dspConfig")
             THEN [peer EXCEPT !.dspConfig = Merge(@, config)]
             ELSE peer
  /\ UNCHANGED <<sampleRate, result, calls, yin, app>>

\* engine.updateConfig(config)
UpdateConfig(config) ==
  /\ \E u \in {updateConfig(dspConfig, median, ema, config)} :
        /\ dspConfig' = u.dspConfig
        /\ median' = u.median
        /\ ema' = u.ema
  /\ last' = [Constructed(config) EXCEPT !.op = "updateConfig",
                !.medianBefore = median, !.emaBefore = ema]
  /\ UNCHANGED <<sampleRate, result, calls, yin, peer, app>>

\* The engine used by a caller: up to MaxCalls frames, reconfigured in between
Next ==
  \/ \E call \in Calls :
        calls < MaxCalls /\ ProcessFrame(call.frame, call.opts)
  \/ \E config \in UpdateConfigs :
        calls < MaxCalls /\ last.op # "updateConfig" /\ UpdateConfig(config)

Spec == Init /\ [][Next]_vars

----------------------------------------------------------------------------
(* A stream of frames through one engine, to exercise the smoothers *)

StreamEngines ==
  {[rate |-> 800, config |-> [highPassCutoff |-> 0, medianWindowSize |-> 3]]}

StreamCalls ==
  {[frame |-> Tone8, opts |-> EmptyConfig],
   [frame |-> Tone3, opts |-> EmptyConfig],
   [frame |-> Tone4, opts |-> [smoothing |-> TRUE]],
   [frame |-> ZeroFrame(MaxZeroLen), opts |-> EmptyConfig],
   [frame |-> Tone4, opts |-> [smoothing |-> FALSE]]}

StreamConfigs ==
  {[medianWindowSize |-> 2],
   [medianWindowSize |-> 2, movingAverageAlpha |-> 500],
   [movingAverageAlpha |-> 500],
   [medianWindowSize |-> 0, movingAverageAlpha |-> 0]}

InitStream == \E engine \in StreamEngines : Construct(engine)

NextStream ==
  \/ \E call \in StreamCalls :
        calls < MaxStream /\ ProcessFrame(call.frame, call.opts)
  \/ \E config \in StreamConfigs :
        calls < MaxStream /\ last.op # "updateConfig" /\ UpdateConfig(config)

SpecStream == InitStream /\ [][NextStream]_vars

----------------------------------------------------------------------------
(* Pure sine tones through new engines *)

Tones == {Sine12, Sine8, Sine4, Sine3}

\* Each tone in a frame of 2 periods, of 3 periods and of ToneLen samples
ToneFrames ==
  {Periodic(tone, n) : tone \in Tones, n \in {ToneLen}}
  \cup {Periodic(tone, 2 * Len(tone)) : tone \in Tones}
  \cup {Periodic(tone, 3 * Len(tone)) : tone \in Tones}

ToneCalls ==
  {[frame |-> f, opts |-> o] :
     f \in ToneFrames, o \in {EmptyConfig, [smoothing |-> FALSE]}}

ToneEngines ==
  {[rate |-> 800, config |-> [highPassCutoff |-> 0]],
   [rate |-> 800, config |-> EmptyConfig],
   [rate |-> 400, config |-> [highPassCutoff |-> 0, enableNormalization |-> FALSE,
                              enableNoiseGate |-> FALSE]]}

InitTone == \E engine \in ToneEngines : Construct(engine)

NextTone ==
  \E call \in ToneCalls : calls < MaxCalls /\ ProcessFrame(call.frame, call.opts)

SpecTone == InitTone /\ [][NextTone]_vars

----------------------------------------------------------------------------
(* Yin.detectPitch on its own *)

YinBuffers ==
  {ZeroFrame(n) : n \in 0..MaxZeroLen}
  \cup ToneFrames
  \cup {<<50>>, <<50, -50, 50>>, <<50, 50, 50, 50, 50, 50>>,
        <<0, 0, 0, 0, 0, 100>>, <<100, 0, 0, 0, 0, 0, 0, 0>>,
        Periodic(Sine16, 2 * ToneLen),
        Periodic(Uneven8, ToneLen)}

YinRates == {800, 50, 0, -100}

\* A Yin of some engine, about to be given a buffer
InitYin ==
  \E rate \in YinRates, buffer \in YinBuffers :
     /\ ConstructFields([rate |-> rate, config |-> EmptyConfig])
     /\ yin = [NewYin(rate) EXCEPT !.buffer = buffer]
     /\ peer = NoPeer
     /\ app = NoApp

\* this.yin.detectPitch(buffer)
DetectPitch ==
  /\ ~yin.done
  /\ \E r \in {detectPitch(yin.buffer, yin.sampleRate, YinThreshold)} :
        yin' = [yin EXCEPT !.done = TRUE, !.pitch = r.pitch,
                           !.probability = r.probability, !.tau = r.tau]
  /\ UNCHANGED <<sampleRate, dspConfig, median, ema, result, last, calls, peer, app>>

NextYin == DetectPitch

SpecYin == InitYin /\ [][NextYin]_vars


----------------------------------------------------------------------------
(* The two smoothers on their own *)

\* The number of values pushed into a smoother
MaxPushes == 5

\* The values pushed: frequencies, NaN and Infinity
PushValues == {Num(100), Num(200), Num(500), NaN, Inf(1)}

\* new MedianSmoother(size) and new MovingAverage(alpha), as the constructor
\* of an engine configured with them makes them
SmootherConfigs ==
  {[under |-> "MedianSmoother", config |-> [medianWindowSize |-> size]] :
     size \in {1, 2, 3}}
  \cup {[under |-> "MovingAverage", config |-> [movingAverageAlpha |-> alpha]] :
          alpha \in {500, 350, 1000}}

\* An engine's smoothers just constructed; `last` logs the values pushed
\* into the smoother under test and the values push returned
InitSmooth ==
  \E s \in SmootherConfigs :
     /\ sampleRate = 800
     /\ dspConfig = Merge(defaultDSPConfig, s.config)
     /\ median = MedianSmoother(Merge(defaultDSPConfig, s.config).medianWindowSize)
     /\ ema = MovingAverage(Merge(defaultDSPConfig, s.config).movingAverageAlpha)
     /\ result = Null
     /\ last = [op |-> "new", under |-> s.under, pushed |-> <<>>, returned |-> <<>>]
     /\ calls = 0
     /\ yin = NewYin(800)
     /\ peer = NoPeer
     /\ app = NoApp

\* this.median.push(value)
PushMedian(value) ==
  /\ last.under = "MedianSmoother"
  /\ Len(last.pushed) < MaxPushes
  /\ \E r \in {MedianPush(median, value)} :
        /\ median' = r.smoother
        /\ result' = r.value
        /\ last' = [last EXCEPT !.op = "push",
                                !.pushed = Append(@, value),
                                !.returned = Append(@, r.value)]
  /\ UNCHANGED <<sampleRate, dspConfig, ema, calls, yin, peer, app>>

\* this.ema.push(value)
PushEma(value) ==
  /\ last.under = "MovingAverage"
  /\ Len(last.pushed) < MaxPushes
  /\ \E r \in {MovingAveragePush(ema, value)} :
        /\ ema' = r.smoother
        /\ result' = r.value
        /\ last' = [last EXCEPT !.op = "push",
                                !.pushed = Append(@, value),
                                !.returned = Append(@, r.value)]
  /\ UNCHANGED <<sampleRate, dspConfig, median, calls, yin, peer, app>>

NextSmooth ==
  \/ \E value \in PushValues : PushMedian(value)
  \/ \E value \in PushValues : PushEma(value)

SpecSmooth == InitSmooth /\ [][NextSmooth]_vars

-----------------------------------------------------------------------------
(* core/dsp/noise.ts on its own *)

\* Frames for the noise control: empty, silent, at RMS 0.01, 0.2, 0.5 and
\* about 0.7, and one of a single sample
NoiseFrames ==
  {<<>>, ZeroFrame(4), <<1, -1, 1, -1>>, <<20, -20, 20, -20>>, <<50>>,
   <<50, -50, 50>>, <<0, 0, 0, 0, 0, 100>>, Periodic(Sine4, 8)}

NoiseConfigs ==
  {[enableNormalization |-> normalize, normalizationTargetRMS |-> target,
    enableNoiseGate |-> gate, noiseGateThreshold |-> threshold] :
     normalize \in BOOLEAN, target \in {250, 500},
     gate \in BOOLEAN, threshold \in {0, 20, 300}}

\* A frame and a configuration about to be given to the noise control; `last`
\* logs the function called and the divisors of the divisions it performed
InitNoise ==
  \E frame \in NoiseFrames, config \in NoiseConfigs :
     /\ sampleRate = 800
     /\ dspConfig = Merge(defaultDSPConfig, config)
     /\ median = MedianSmoother(defaultDSPConfig.medianWindowSize)
     /\ ema = MovingAverage(defaultDSPConfig.movingAverageAlpha)
     /\ result = Null
     /\ last = [op |-> "new", frame |-> frame, divisors |-> <<>>]
     /\ calls = 0
     /\ yin = NewYin(800)
     /\ peer = NoPeer
     /\ app = NoApp

\* normalizeFrame(frame, config.normalizationTargetRMS)
NormalizeFrame ==
  /\ result' = normalizeFrame(last.frame, dspConfig.normalizationTargetRMS)
  /\ last' = [last EXCEPT !.op = "normalizeFrame",
                           !.divisors = normalizeFrameDivisors(last.frame)]
  /\ UNCHANGED <<sampleRate, dspConfig, median, ema, calls, yin, peer, app>>

\* softNoiseGate(frame, config.noiseGateThreshold)
SoftNoiseGate ==
  /\ result' = softNoiseGate(last.frame, dspConfig.noiseGateThreshold)
  /\ last' = [last EXCEPT !.op = "softNoiseGate",
                           !.divisors = softNoiseGateDivisors(
                                          last.frame, dspConfig.noiseGateThreshold)]
  /\ UNCHANGED <<sampleRate, dspConfig, median, ema, calls, yin, peer, app>>

\* applyNoiseControl(frame, config)
ApplyNoiseControl ==
  /\ result' = applyNoiseControl(last.frame, dspConfig)
  /\ last' = [last EXCEPT !.op = "applyNoiseControl",
                           !.divisors = applyNoiseControlDivisors(last.frame,
                                                                  dspConfig)]
  /\ UNCHANGED <<sampleRate, dspConfig, median, ema, calls, yin, peer, app>>

NextNoise == NormalizeFrame \/ SoftNoiseGate \/ ApplyNoiseControl

SpecNoise == InitNoise /\ [][NextNoise]_vars

-----------------------------------------------------------------------------
(* core/note-utils.ts on its own *)

\* Frequencies for frequencyToNote: the equal-tempered notes from C0 to B5,
\* frequencies between two notes and at a quarter tone, frequencies under
\* C-1 (8.18 Hz), and the values that are no frequency
NoteFrequencies ==
  {Num(Pow2Semitones(A4_FREQUENCY * 1000, s)) : s \in -57..14}
  \cup {Num(445000), Num(452893), Num(430000), Num(261000),
        Num(8000), Num(7000), Num(5000), Num(4088), Num(1000),
        Num(0), Num(-440000), NaN, Null, Undefined}

\* Texts for parseExpectedNote
NoteTexts ==
  {<<"A", "4">>, <<"4", "4", "0">>, <<"H", "9">>, <<"4", "4", "2">>,
   <<" ", "4", "4", "0", " ">>, <<"4", "4", ".", "5">>, <<"0">>,
   <<"0", ".", "0">>, <<"4", ".">>, <<".", "5">>, <<"-", "5">>,
   <<"1", "e", "3">>, <<>>, <<"A">>, <<"4", "A">>, <<"A", "#">>,
   <<"A", " ", "4">>, <<"A", "1", "0">>, <<" ", "A", "4", " ">>,
   <<"C", "4">>, <<"c", "4">>, <<"C", "#", "4">>, <<"D", "b", "4">>,
   <<"B", "b", "3">>, <<"b", "b", "3">>, <<"b", "3">>, <<"A", "#", "3">>,
   <<"a", "b", "4">>, <<"G", "#", "2">>, <<"F", "#", "5">>, <<"E", "b", "1">>,
   <<"C", "-", "1">>, <<"A", "-", "1">>, <<"C", "0">>, <<"B", "9">>,
   <<"E", "#", "4">>, <<"B", "#", "3">>, <<"C", "b", "4">>, <<"F", "b", "2">>,
   <<"e", "#", "0">>, <<"A", "b", "b", "4">>, <<"A", "4", "4">>}

\* The note utilities about to be called; `last` logs the function called
\* and its arguments
InitNote ==
  /\ sampleRate = 800
  /\ dspConfig = defaultDSPConfig
  /\ median = MedianSmoother(defaultDSPConfig.medianWindowSize)
  /\ ema = MovingAverage(defaultDSPConfig.movingAverageAlpha)
  /\ result = Null
  /\ last = [op |-> "new", frequency |-> Null, text |-> <<>>]
  /\ calls = 0
  /\ yin = NewYin(800)
  /\ peer = NoPeer
  /\ app = NoApp

\* frequencyToNote(frequency)
FrequencyToNote(frequency) ==
  /\ result' = frequencyToNote(frequency)
  /\ last' = [op |-> "frequencyToNote", frequency |-> frequency, text |-> <<>>]
  /\ UNCHANGED <<sampleRate, dspConfig, median, ema, calls, yin, peer, app>>

\* parseExpectedNote(text)
ParseExpectedNote(text) ==
  /\ result' = parseExpectedNote(text)
  /\ last' = [op |-> "parseExpectedNote", frequency |-> Null, text |-> text]
  /\ UNCHANGED <<sampleRate, dspConfig, median, ema, calls, yin, peer, app>>

\* centsOffFromReference(f, f) for the value f parseExpectedNote returned
CentsOffFromReference ==
  /\ last.op = "parseExpectedNote"
  /\ IsNum(result)
  /\ result' = centsOffFromReference(result.v, result.v)
  /\ last' = [last EXCEPT !.op = "centsOffFromReference", !.frequency = result]
  /\ UNCHANGED <<sampleRate, dspConfig, median, ema, calls, yin, peer, app>>

NextNote ==
  \/ \E frequency \in NoteFrequencies : FrequencyToNote(frequency)
  \/ \E text \in NoteTexts : ParseExpectedNote(text)
  \/ CentsOffFromReference

SpecNote == InitNote /\ [][NextNote]_vars

-----------------------------------------------------------------------------
(* Two engine instances in one module *)

\* new PitchEngine(rate, config) for the second instance; `log` keeps the
\* calls made on it
NewPeer(engine) ==
  [sampleRate |-> engine.rate,
   dspConfig |-> Merge(defaultDSPConfig, engine.config),
   median |-> MedianSmoother(Merge(defaultDSPConfig, engine.config).medianWindowSize),
   ema |-> MovingAverage(Merge(defaultDSPConfig, engine.config).movingAverageAlpha),
   result |-> Null,
   constructed |-> engine,
   log |-> <<>>]

PeerEngines ==
  {[rate |-> 800, config |-> [highPassCutoff |-> 0, medianWindowSize |-> 3]],
   [rate |-> 400, config |-> [highPassCutoff |-> 0]]}

PeerCalls ==
  {[frame |-> Tone8, opts |-> EmptyConfig],
   [frame |-> Tone4, opts |-> [smoothing |-> TRUE]],
   [frame |-> Tone3, opts |-> [smoothing |-> FALSE]]}

PeerConfigs ==
  {[medianWindowSize |-> 2, movingAverageAlpha |-> 500],
   [enableNormalization |-> FALSE, enableNoiseGate |-> FALSE]}

InitPeers ==
  \E engine \in PeerEngines, other \in PeerEngines :
     /\ ConstructFields(engine)
     /\ yin = NewYin(engine.rate)
     /\ peer = NewPeer(other)
     /\ app = NoApp

\* processFrame(frame, opts) on the second instance
PeerProcessFrame(frame, opts) ==
  /\ \E r \in {processFrame(peer.sampleRate, peer.dspConfig, peer.median,
                            peer.ema, frame, opts)} :
        peer' = [peer EXCEPT !.median = r.median, !.ema = r.ema,
                             !.result = r.result,
                             !.log = Append(@, [op |-> "processFrame",
                                                frame |-> frame, opts |-> opts,
                                                config |-> EmptyConfig])]
  /\ UNCHANGED <<sampleRate, dspConfig, median, ema, result, last, calls, yin, app>>

\* updateConfig(config) on the second instance
PeerUpdateConfig(config) ==
  /\ \E u \in {updateConfig(peer.dspConfig, peer.median, peer.ema, config)} :
        peer' = [peer EXCEPT !.dspConfig = u.dspConfig, !.median = u.median,
                             !.ema = u.ema,
                             !.log = Append(@, [op |-> "updateConfig",
                                                frame |-> <<>>, opts |-> EmptyConfig,
                                                config |-> config])]
  /\ UNCHANGED <<sampleRate, dspConfig, median, ema, result, last, calls, yin, app>>

\* Calls on the two instances in any order, up to MaxCalls counted calls
NextPeers ==
  \/ \E call \in PeerCalls :
        /\ calls + Len(peer.log) < MaxCalls
        /\ ProcessFrame(call.frame, call.opts)
  \/ \E config \in PeerConfigs :
        /\ calls + Len(peer.log) < MaxCalls
        /\ last.op # "updateConfig"
        /\ UpdateConfig(config)
  \/ \E call \in PeerCalls :
        /\ calls + Len(peer.log) < MaxCalls
        /\ PeerProcessFrame(call.frame, call.opts)
  \/ \E config \in PeerConfigs :
        /\ calls + Len(peer.log) < MaxCalls
        /\ PeerUpdateConfig(config)

SpecPeers == InitPeers /\ [][NextPeers]_vars

-----------------------------------------------------------------------------
(* The browser app's Live Tuner: startLiveMode, stopLiveMode, setActiveMode *)

\* The number of startLiveMode calls
MaxStarts == 2

Modes == {"file", "record", "live"}

\* An object created by the n-th startLiveMode call
Handle(kind, n) == [k |-> kind, v |-> n]

\* stopLiveMode(): disconnects the processor and the source node, stops the
\* tracks of liveStream, clears the four variables, enables Start and
\* disables Stop
stopLiveMode(a) ==
  [a EXCEPT !.connected = @ \ {a.liveProcessor, a.liveSourceNode},
            !.capturing = @ \ {a.liveStream},
            !.liveProcessor = Null,
            !.liveSourceNode = Null,
            !.liveStream = Null,
            !.liveEngine = Null,
            !.startDisabled = FALSE,
            !.stopDisabled = TRUE]

\* setActiveMode(mode): leaving live mode calls stopLiveMode, then the mode
\* is stored
setActiveMode(a, mode) ==
  [(IF mode # "live" THEN stopLiveMode(a) ELSE a) EXCEPT !.activeMode = mode]

\* The module's state once loaded: the variables as declared, then
\* setActiveMode("file"). `pending` holds the startLiveMode calls waiting
\* for getUserMedia, `capturing` the streams whose tracks run, `connected`
\* the audio nodes connected to the graph
LoadedApp(mediaDevices, scriptProcessor) ==
  setActiveMode([activeMode |-> "file",
                 liveStream |-> Null,
                 liveProcessor |-> Null,
                 liveSourceNode |-> Null,
                 liveEngine |-> Null,
                 startDisabled |-> FALSE,
                 stopDisabled |-> FALSE,
                 pending |-> {},
                 capturing |-> {},
                 connected |-> {},
                 started |-> 0,
                 error |-> FALSE,
                 mediaDevices |-> mediaDevices,
                 scriptProcessor |-> scriptProcessor], "file")

InitApp ==
  /\ sampleRate = 800
  /\ dspConfig = defaultDSPConfig
  /\ median = MedianSmoother(defaultDSPConfig.medianWindowSize)
  /\ ema = MovingAverage(defaultDSPConfig.movingAverageAlpha)
  /\ result = Null
  /\ last = [op |-> "load"]
  /\ calls = 0
  /\ yin = NewYin(800)
  /\ peer = NoPeer
  /\ \E mediaDevices \in BOOLEAN, scriptProcessor \in BOOLEAN :
        app = LoadedApp(mediaDevices, scriptProcessor)

\* startLiveMode() up to its await: live mode is entered, whatever runs is
\* stopped, and getUserMedia is asked for a stream
startLiveModeBegin(a) ==
  LET entered == IF a.activeMode # "live" THEN setActiveMode(a, "live") ELSE a
      stopped == stopLiveMode(entered)
  IN  IF ~a.mediaDevices
        THEN [stopped EXCEPT !.error = TRUE, !.started = @ + 1]
        ELSE [stopped EXCEPT !.pending = @ \cup {a.started + 1},
                             !.started = @ + 1]

\* startLiveMode() after its await, the promise of call n fulfilled: the
\* stream is stored, then the source, the processor and the engine are
\* created and connected, Start is disabled and Stop enabled
startLiveModeResume(a, n) ==
  LET got == [a EXCEPT !.pending = @ \ {n},
                       !.liveStream = Handle("MediaStream", n),
                       !.capturing = @ \cup {Handle("MediaStream", n)}]
  IN  IF ~a.scriptProcessor
        THEN [got EXCEPT !.error = TRUE]
        ELSE [got EXCEPT !.liveEngine = Handle("PitchEngine", n),
                         !.liveProcessor = Handle("ScriptProcessorNode", n),
                         !.liveSourceNode = Handle("MediaStreamAudioSourceNode", n),
                         !.connected = @ \cup {Handle("ScriptProcessorNode", n),
                                               Handle("MediaStreamAudioSourceNode", n)},
                         !.startDisabled = TRUE,
                         !.stopDisabled = FALSE]

\* startLiveMode() after its await, the promise of call n rejected
startLiveModeCatch(a, n) ==
  [a EXCEPT !.pending = @ \ {n}, !.error = TRUE]

\* A click on one of the three mode tabs
TabClick(mode) ==
  /\ app' = setActiveMode(app, mode)
  /\ last' = [op |-> "setActiveMode"]
  /\ UNCHANGED <<sampleRate, dspConfig, median, ema, result, calls, yin, peer>>

\* A click on Start, shown in the live panel
LiveStartClick ==
  /\ app.activeMode = "live"
  /\ ~app.startDisabled
  /\ app.started < MaxStarts
  /\ app' = startLiveModeBegin(app)
  /\ last' = [op |-> "startLiveMode"]
  /\ UNCHANGED <<sampleRate, dspConfig, median, ema, result, calls, yin, peer>>

\* The user allows the microphone for call n
PermissionGranted(n) ==
  /\ n \in app.pending
  /\ app' = startLiveModeResume(app, n)
  /\ last' = [op |-> "granted"]
  /\ UNCHANGED <<sampleRate, dspConfig, median, ema, result, calls, yin, peer>>

\* The user refuses the microphone for call n
PermissionDenied(n) ==
  /\ n \in app.pending
  /\ app' = startLiveModeCatch(app, n)
  /\ last' = [op |-> "denied"]
  /\ UNCHANGED <<sampleRate, dspConfig, median, ema, result, calls, yin, peer>>

\* A click on Stop, shown in the live panel
LiveStopClick ==
  /\ app.activeMode = "live"
  /\ ~app.stopDisabled
  /\ app' = stopLiveMode(app)
  /\ last' = [op |-> "stopLiveMode"]
  /\ UNCHANGED <<sampleRate, dspConfig, median, ema, result, calls, yin, peer>>

NextApp ==
  \/ \E mode \in Modes : TabClick(mode)
  \/ LiveStartClick
  \/ \E n \in 1..MaxStarts : PermissionGranted(n)
  \/ \E n \in 1..MaxStarts : PermissionDenied(n)
  \/ LiveStopClick

SpecApp == InitApp /\ [][NextApp]_vars

----------------------------------------------------------------------------
(* The properties of the engine *)

\* processFrame was the last operation and it returned a result record
Returned == last.op = "processFrame" /\ ~Threw(result)

\* the estimator detected a frequency: a finite pitch that is not 0
Detected(pitch) == IsNum(pitch) /\ pitch.v # 0

\* opts.smoothing is absent or true
SmoothingRequested(opts) == ~Has(opts, "smoothing") \/ opts.smoothing

\* the delay state (z1, z2) of a biquad filter
Delay(f) == <<f.z1, f.z2>>

\* C1: filter memory persists across frames.  For two consecutive
\* processFrame calls with a cutoff enabled and the same filter parameters,
\* the delay state (z1, z2) the filter starts the second frame from is the
\* state it was left in after the first; it is not reset to (0, 0).
FilterMemoryPersists ==
  [][(last.op = "processFrame" /\ last'.op = "processFrame")
       => /\ (/\ last.filters.hpOn
              /\ last'.filters.hpOn
              /\ last'.cfg.highPassCutoff = last.cfg.highPassCutoff
              /\ last'.cfg.highPassQ = last.cfg.highPassQ)
             => Delay(last'.filters.hp) = Delay(last.filters.hpEnd)
          /\ (/\ last.filters.lpOn
              /\ last'.filters.lpOn
              /\ last'.cfg.lowPassCutoff = last.cfg.lowPassCutoff
              /\ last'.cfg.lowPassQ = last.cfg.lowPassQ)
             => Delay(last'.filters.lp) = Delay(last.filters.lpEnd)]_vars

\* C2: processFrame never throws.  Whatever the frame, the sample rate and
\* the options, and after any earlier calls, the call returns a result
\* record, also when the detected frequency is so low that the rounded note
\* number is negative.
ProcessFrameNeverThrows == last.op = "processFrame" => ~Threw(result)

\* C3: for an all-zero frame of any length detectPitch returns pitch = none
\* and probability = 0, although the running sum that normalises the
\* difference function is 0 at every lag.
ZeroFrameHasNoPitch ==
  (yin.done /\ IsZeroFrame(yin.buffer))
    => (IsNull(yin.pitch) /\ yin.probability = Num(0))

\* detectPitch has answered for the longest all-zero frame, whose running sum
\* is 0 at every lag
ZeroFrameDetected ==
  /\ yin.done
  /\ Len(yin.buffer) = MaxZeroLen
  /\ IsZeroFrame(yin.buffer)
  /\ \A tau \in 1..((MaxZeroLen \div 2) - 1) :
        CMNDLoop(yin.buffer, tau).runningSum = 0

\* a frame with every sample zero, or shorter than 4 samples (the empty frame
\* is both)
Degenerate(frame) == IsZeroFrame(frame) \/ Len(frame) < 4

\* C4: for a degenerate frame (all zero, or too short, the empty frame
\* included) processFrame reports frequency = none, confidence = 0 and
\* frameRMS = 0, a zero and not NaN.
DegenerateFrameReportsZero ==
  (last.op = "processFrame" /\ Degenerate(last.frame))
    => /\ ~Threw(result)
       /\ IsNull(result.frequency)
       /\ result.confidence = Num(0)
       /\ result.frameRMS = Num(0)

\* frame holds the periodic signal whose period is tone
IsTone(frame, tone) ==
  \A i \in 1..Len(frame) : frame[i] = tone[((i - 1) % Len(tone)) + 1]

\* the frequency, in millihertz, of a tone of Len(tone) samples per period
ToneHz(tone) == SDiv(sampleRate * 1000, Len(tone))

\* the result reports a frequency within 1% of the tone's and a confidence
\* greater than 0.8
ConfidentDetection(tone) ==
  /\ ~Threw(result)
  /\ IsNum(result.frequency)
  /\ 100 * Abs(result.frequency.v - ToneHz(tone)) <= ToneHz(tone)
  /\ IsNum(result.confidence)
  /\ result.confidence.v > 800

\* both filters were off in the last processFrame call
Unfiltered == ~last.filters.hpOn /\ ~last.filters.lpOn

\* the last processFrame call had no earlier frequency to smooth against
Unsmoothed ==
  \/ ~SmoothingRequested(last.opts)
  \/ (last.medianBefore.window = <<>> /\ IsNull(last.emaBefore.smoothed))

ValidConfiguration(rate, config) ==
  /\ rate > 0
  /\ config.frameSize > 0
  /\ 2 * config.highPassCutoff < rate
  /\ 2 * config.lowPassCutoff < rate

\* C6: invalid configuration is rejected when the engine is constructed or
\* reconfigured.  A non-positive sample rate, a non-positive frameSize or a
\* cutoff at or above Nyquist is never accepted silently and then used by
\* processFrame: every frame is processed by a validly configured engine.
InvalidConfigurationNeverUsed ==
  last.op = "processFrame" => ValidConfiguration(sampleRate, dspConfig)

\* the caller supplied an expected note that resolved to a positive Hz value
ExpectedResolved(opts) ==
  Has(opts, "expectedNote") /\ GtZero(normalizeExpected(opts.expectedNote))

\* C7: in every result processFrame returns, after any earlier calls, note
\* is present only if frequency is present (non-null and > 0), and deviation
\* is present only if the expected note resolved to a positive Hz value and
\* frequency is present.
NoteAndDeviationNeedFrequency ==
  Returned
    => /\ ~IsUndefined(result.note) => GtZero(result.frequency)
       /\ ~IsUndefined(result.deviation)
            => (ExpectedResolved(last.opts) /\ GtZero(result.frequency))

\* a result for a frame in which nothing was detected, asked for with an
\* expected note that resolves: neither note nor deviation is attached
NoFrequencyNoDeviation ==
  /\ Returned
  /\ ExpectedResolved(last.opts)
  /\ IsNull(result.frequency)
  /\ IsUndefined(result.note)
  /\ IsUndefined(result.deviation)
  /\ ~IsUndefined(result.expectedNote)

\* C8: when smoothing is requested (option absent or true) and the estimator
\* detected a frequency p, the reported frequency is
\* ema.push(median.push(p)); otherwise it is the raw detected value (or
\* none).  Either way the reported confidence is the estimator's probability.
ReportedFrequencyIsMedianThenEma ==
  Returned
    => /\ result.confidence = last.probability
       /\ result.frequency =
            IF SmoothingRequested(last.opts) /\ Detected(last.pitch)
            THEN MovingAveragePush(last.emaBefore,
                                   MedianPush(last.medianBefore,
                                              last.pitch).value).value
            ELSE last.pitch

\* a smoothed result on an engine that had smoothed two frequencies before:
\* the reported frequency is not the detected one
SmoothedAgainstHistory ==
  /\ Returned
  /\ SmoothingRequested(last.opts)
  /\ Detected(last.pitch)
  /\ Len(last.medianBefore.window) = 2
  /\ result.frequency # last.pitch
  /\ result.confidence = last.probability

\* C9: a processFrame call that yields no detection, or that is made with
\* smoothing = false, leaves the median window and the EMA running value as
\* they were: nothing is pushed and nothing is reset.
GapLeavesSmoothersUntouched ==
  [][(/\ last'.op = "processFrame"
      /\ ~Detected(last'.pitch) \/ ~SmoothingRequested(last'.opts))
       => (median' = median /\ ema' = ema)]_vars

\* a call without detection on an engine whose smoothers hold a frequency:
\* they still hold it
GapAfterDetection ==
  /\ last.op = "processFrame"
  /\ ~Detected(last.pitch)
  /\ Len(last.medianBefore.window) > 0
  /\ median.window = last.medianBefore.window
  /\ ~IsNull(ema.smoothed)

\* frequencies to push next, in millihertz
ProbePitches == {Num(100000), Num(203459), Num(50000)}

ProcessFrameKeepsStoredConfig ==
  [][last'.op = "processFrame"
       => /\ dspConfig' = dspConfig
          /\ DOMAIN last'.cfg = DOMAIN dspConfig
          /\ \A field \in DOMAIN dspConfig :
               last'.cfg[field] =
                 IF /\ Has(last'.opts, "advancedConfig")
                    /\ Has(last'.opts.advancedConfig, field)
                 THEN last'.opts.advancedConfig[field]
                 ELSE dspConfig[field]]_vars

\* the second call of an engine ran with a high-pass cutoff overridden to 0
\* while the stored cutoff is still the default
OverrideLeftStoredConfig ==
  /\ last.op = "processFrame"
  /\ calls = 2
  /\ Has(last.opts, "advancedConfig")
  /\ last.cfg.highPassCutoff = 0
  /\ dspConfig.highPassCutoff = EMBEDDED_DEFAULTS.highPassCutoff
  /\ dspConfig.highPassCutoff # 0

\* the median smoother is under test and push has been called
MedianPushed == last.op = "push" /\ last.under = "MedianSmoother"

\* the finite values among those pushed, in arrival order
FinitePushed == SelectSeq(last.pushed, IsNum)

\* the last n of the finite values pushed, as plain numbers
LastFinite(n) ==
  [i \in 1..n |-> FinitePushed[Len(FinitePushed) - n + i].v]

\* C12: after any pushes into a MedianSmoother of window size W >= 1 the
\* window holds the last min(k, W) finite values pushed, in arrival order
\* (k finite pushes so far), so it is never longer than W and the oldest
\* value is the one evicted; a non-finite value is returned unchanged and
\* does not enter the window.
WindowHoldsLastFinitePushes ==
  MedianPushed
    => /\ Len(median.window) <= median.maxSize
       /\ median.window =
            LastFinite(IF Len(FinitePushed) < median.maxSize
                       THEN Len(FinitePushed) ELSE median.maxSize)
       /\ \A i \in 1..Len(last.pushed) :
            ~IsNum(last.pushed[i]) => last.returned[i] = last.pushed[i]

\* more finite values than the window takes were pushed, with a non-finite
\* one among them: the oldest finite value is gone from the window
OldestEvicted ==
  /\ MedianPushed
  /\ median.maxSize = 2
  /\ Len(FinitePushed) = 3
  /\ Len(last.pushed) = 4
  /\ FinitePushed[1] # FinitePushed[2]
  /\ FinitePushed[2] # FinitePushed[3]
  /\ FinitePushed[1] # FinitePushed[3]
  /\ median.window = <<FinitePushed[2].v, FinitePushed[3].v>>

\* how many values of the window are below x, and how many are not above it
Below(window, x) == Cardinality({i \in 1..Len(window) : window[i] < x})
UpTo(window, x) == Cardinality({i \in 1..Len(window) : window[i] <= x})

\* x is the n-th smallest value of the window (1-based)
IsNthSmallest(window, n, x) ==
  /\ \E i \in 1..Len(window) : window[i] = x
  /\ Below(window, x) < n
  /\ UpTo(window, x) >= n

\* the last value pushed was finite
LastPushFinite == MedianPushed /\ IsNum(last.pushed[Len(last.pushed)])

\* C13 as stated: push returns the middle element of the sorted window, and
\* for a window of even length n the lower-middle one, the (n/2)-th
\* smallest, not the (n/2 + 1)-th.
MedianIsLowerMiddle ==
  LastPushFinite
    => /\ IsNum(result)
       /\ IsNthSmallest(median.window,
                        IF Len(median.window) % 2 = 0
                        THEN Len(median.window) \div 2
                        ELSE (Len(median.window) + 1) \div 2,
                        result.v)

\* C13: push returns the element of the sorted window at index
\* floor(n / 2) counted from 0: the middle element for odd n, and for even n
\* the upper-middle one, the (n/2 + 1)-th smallest.
MedianIsUpperMiddle ==
  LastPushFinite
    => /\ IsNum(result)
       /\ IsNthSmallest(median.window, (Len(median.window) \div 2) + 1, result.v)

\* a window of two different values: push returned the larger one
UpperOfTwoReturned ==
  /\ LastPushFinite
  /\ Len(median.window) = 2
  /\ median.window[1] # median.window[2]
  /\ result.v = Max(median.window[1], median.window[2])
  /\ ~IsNthSmallest(median.window, 1, result.v)

\* the values pushed are v, v, v, then once s, then v again: a stream of v
\* with a single finite spike s after at least three v
SpikeStream(v, s) ==
  /\ Len(last.pushed) >= 4
  /\ \E at \in 4..Len(last.pushed) :
        \A i \in 1..Len(last.pushed) :
           last.pushed[i] = IF i = at THEN s ELSE v

\* C14: with window size 3, when a stream of equal values v is interrupted by
\* a single different value s, every value push returns is v, the one for
\* the push of s and those after it included.
SpikeRejected ==
  \A v, s \in {x \in PushValues : IsNum(x)} :
    (MedianPushed /\ median.maxSize = 3 /\ v # s /\ SpikeStream(v, s))
      => \A i \in 1..Len(last.returned) : last.returned[i] = v

\* v, v, v, s, v has been pushed with s above v, and five times v returned
SpikeAndRecovery ==
  /\ MedianPushed
  /\ median.maxSize = 3
  /\ last.pushed = <<Num(100), Num(100), Num(100), Num(500), Num(100)>>
  /\ last.returned = <<Num(100), Num(100), Num(100), Num(100), Num(100)>>

\* the moving average is under test and push has been called
EmaPushed == last.op = "push" /\ last.under = "MovingAverage"

\* out is alpha * value + (1 - alpha) * previous, to the nearest unit
IsWeightedMean(alpha, value, previous, out) ==
  Abs(1000 * out - (alpha * value + (1000 - alpha) * previous)) <= 500

\* C15: MovingAverage.push returns its input unchanged on the first push
\* after construction, on every later push returns
\* alpha * value + (1 - alpha) * previousOutput, and keeps what it returned
\* as the running value.
EmaIsWeightedMean ==
  EmaPushed
    => /\ last.returned[1] = last.pushed[1]
       /\ ema.smoothed = last.returned[Len(last.returned)]
       /\ \A i \in 2..Len(last.pushed) :
            (IsNum(last.pushed[i]) /\ IsNum(last.returned[i - 1]))
              => /\ IsNum(last.returned[i])
                 /\ IsWeightedMean(ema.alpha, last.pushed[i].v,
                                   last.returned[i - 1].v, last.returned[i].v)

\* alpha 0.5 over the inputs 100, 200 gives 100, 150
EmaOfTwoPushes ==
  /\ EmaPushed
  /\ ema.alpha = 500
  /\ last.pushed = <<Num(100), Num(200)>>
  /\ last.returned = <<Num(100), Num(150)>>
  /\ ema.smoothed = Num(150)

\* the lags in [2, halfLength) whose normalised difference is under the
\* threshold
LagsUnderThreshold(dPrime) ==
  {t \in 2..(Cardinality(DOMAIN dPrime) - 1) : Lt(dPrime[t], Num(YinThreshold))}

\* the smallest of them
FirstCrossing(dPrime) ==
  CHOOSE t \in LagsUnderThreshold(dPrime) :
    \A u \in LagsUnderThreshold(dPrime) : t <= u

\* t + 1 = halfLength or d'(t + 1) >= d'(t)
IsLocalMinimum(dPrime, t) ==
  \/ t + 1 = Cardinality(DOMAIN dPrime)
  \/ (IsNum(dPrime[t + 1]) /\ IsNum(dPrime[t]) /\ dPrime[t + 1].v >= dPrime[t].v)

\* the smallest t >= t0 that is a local minimum
FirstLocalMinimumFrom(dPrime, t0) ==
  CHOOSE t \in t0..(Cardinality(DOMAIN dPrime) - 1) :
    /\ IsLocalMinimum(dPrime, t)
    /\ \A u \in t0..(t - 1) : ~IsLocalMinimum(dPrime, u)

\* the lag detectPitch is to select in the normalised difference dPrime,
\* -1 for none
LagToSelect(dPrime) ==
  IF LagsUnderThreshold(dPrime) = {} THEN -1
  ELSE FirstLocalMinimumFrom(dPrime, FirstCrossing(dPrime))

\* C16: with t0 the smallest lag in [2, halfLength) whose normalised
\* difference is below the threshold, detectPitch selects the smallest
\* t >= t0 with t + 1 = halfLength or d'(t + 1) >= d'(t), the first local
\* minimum after the first crossing; with no lag below the threshold it
\* returns pitch = none and probability = 0.
FirstLocalMinimumSelected ==
  yin.done
    => \E dPrime \in {YinBuffer(yin.buffer)} :
         /\ yin.tau = LagToSelect(dPrime)
         /\ yin.tau = -1 => (IsNull(yin.pitch) /\ yin.probability = Num(0))

\* detectPitch walked on from the first crossing to the local minimum
WalkedToLocalMinimum ==
  /\ yin.done
  /\ yin.tau # -1
  /\ FirstCrossing(YinBuffer(yin.buffer)) < yin.tau

\* the lag detectPitch selected is not where the normalised difference is
\* smallest
SelectedLagNotGlobalMinimum ==
  /\ yin.done
  /\ yin.tau # -1
  /\ \E dPrime \in {YinBuffer(yin.buffer)} :
        \E t \in 2..(Cardinality(DOMAIN dPrime) - 1) :
           Lt(dPrime[t], dPrime[yin.tau])

\* the indexes detectPitch used on the buffer it was given are inside the
\* frame and inside the working buffer
IndexesInRange ==
  /\ FrameIndexesRead(Len(yin.buffer)) \subseteq 0..(Len(yin.buffer) - 1)
  /\ YinIndexesUsed(Len(yin.buffer), yin.tau)
       \subseteq 0..((Len(yin.buffer) \div 2) - 1)

\* C17: for every frame length L, every sample index i + tau read by the
\* difference function lies inside the frame, and every index of the working
\* buffer that is read or written, the interpolation's tau - 1 and tau + 1
\* included, is within [0, floor(L/2)).
IndexesAlwaysInRange == yin.done => IndexesInRange

\* The same for frames of two samples or more, whose working buffer is not
\* empty
IndexesInRangeFromTwoSamples ==
  (yin.done /\ Len(yin.buffer) >= 2) => IndexesInRange

\* detectPitch interpolated around a lag next to the end of the working buffer
InterpolatedAtLastLag ==
  /\ yin.done
  /\ yin.tau # -1
  /\ yin.tau + 2 >= Len(yin.buffer) \div 2

\* C18: the confidence reported for every frame lies in [0, 1]: it is 0 when
\* nothing is detected and 1 - d'(tau) at the selected integer lag tau
\* otherwise.
ProbabilityIsOneMinusDifference ==
  yin.done
    => /\ IsNum(yin.probability)
       /\ yin.probability.v \in 0..1000
       /\ yin.tau = -1 => (IsNull(yin.pitch) /\ yin.probability.v = 0)
       /\ yin.tau # -1
            => \E dPrime \in {YinBuffer(yin.buffer)} :
                  /\ IsNum(dPrime[yin.tau])
                  /\ yin.probability.v = 1000 - dPrime[yin.tau].v

\* detectPitch selected a lag whose normalised difference is not 0, so the
\* probability is under 1
ProbabilityUnderOne ==
  /\ yin.done
  /\ yin.tau # -1
  /\ yin.probability.v \in 1..999

\* Settings of the noise control a caller may pass for one frame
NoiseSettings ==
  {[enableNormalization |-> FALSE, enableNoiseGate |-> FALSE],
   [enableNormalization |-> TRUE, normalizationTargetRMS |-> 100,
    enableNoiseGate |-> FALSE],
   [enableNormalization |-> FALSE, enableNoiseGate |-> TRUE,
    noiseGateThreshold |-> 900],
   [enableNormalization |-> TRUE, normalizationTargetRMS |-> 500,
    enableNoiseGate |-> TRUE, noiseGateThreshold |-> 600]}

\* the options of the last call with the noise settings put into its
\* advancedConfig
WithNoiseSettings(opts, settings) ==
  Merge(opts, [advancedConfig |->
                 Merge(IF Has(opts, "advancedConfig")
                       THEN opts.advancedConfig ELSE EmptyConfig, settings)])

\* C19: frameRMS in the result equals the RMS of the frame after the filter
\* stage and before noise control: for the same frame and filter settings,
\* frameRMS is identical whatever the values of enableNormalization,
\* normalizationTargetRMS, enableNoiseGate and noiseGateThreshold.
FrameRMSIsOfFilteredFrame ==
  Returned
    => /\ result.frameRMS = calculateRMS(last.filters.processed)
       /\ \A settings \in NoiseSettings :
            \E again \in {processFrame(sampleRate, dspConfig, last.medianBefore,
                                       last.emaBefore, last.frame,
                                       WithNoiseSettings(last.opts, settings))} :
               /\ ~Threw(again.result)
               /\ again.result.frameRMS = result.frameRMS

\* the noise control changed the frame's level, and the result reports the
\* level before it
NoiseControlChangedLevel ==
  /\ Returned
  /\ IsNum(result.frameRMS)
  /\ result.frameRMS.v > 0
  /\ last.cfg.enableNormalization
  /\ calculateRMS(applyNoiseControl(last.filters.processed, last.cfg))
       # result.frameRMS

\* out is frame with every sample scaled by numerator / denominator, to the
\* rounding of a sample
IsScaled(out, frame, numerator, denominator) ==
  /\ Len(out) = Len(frame)
  /\ \A i \in 1..Len(frame) :
        Abs(out[i] * denominator - frame[i] * numerator) <= denominator

\* out is what normalizeFrame is to return for frame and targetRMS
IsNormalized(out, frame, targetRMS) ==
  \E rms \in {calculateRMS(frame)} :
     IF IsNum(rms) /\ rms.v # 0
     THEN IsScaled(out, frame, targetRMS, rms.v)
     ELSE out = frame

\* out is what softNoiseGate is to return for frame and threshold
IsGated(out, frame, threshold) ==
  \E rms \in {calculateRMS(frame)} :
     IF IsNum(rms) /\ rms.v < threshold
     THEN IsScaled(out, frame, rms.v, threshold)
     ELSE out = frame

\* the outputs of the noise control are as stated: normalisation first, the
\* gate second on the normalised frame, each scaling as stated or returning
\* its input, the frame length kept
NoiseControlOutputs ==
  /\ last.op = "normalizeFrame"
       => IsNormalized(result, last.frame, dspConfig.normalizationTargetRMS)
  /\ last.op = "softNoiseGate"
       => IsGated(result, last.frame, dspConfig.noiseGateThreshold)
  /\ last.op = "applyNoiseControl"
       => /\ Len(result) = Len(last.frame)
          /\ \E normalized \in
                 {IF dspConfig.enableNormalization
                  THEN normalizeFrame(last.frame, dspConfig.normalizationTargetRMS)
                  ELSE last.frame} :
                IF dspConfig.enableNoiseGate
                THEN IsGated(result, normalized, dspConfig.noiseGateThreshold)
                ELSE result = normalized

\* none of the divisions the last call performed had the divisor 0
NoDivisionByZero ==
  \A i \in 1..Len(last.divisors) : last.divisors[i] # Num(0)

\* C20: applyNoiseControl applies normalization first (when enabled) and the
\* soft gate second (when enabled), so the gate compares the RMS of the
\* normalised frame.  normalizeFrame returns its input unchanged when rms = 0
\* and otherwise scales every sample by targetRms / rms; softNoiseGate returns
\* its input unchanged when rms >= threshold and otherwise scales every sample
\* by rms / threshold.  Both preserve the frame length and neither divides by
\* zero, threshold = 0 included.
NoiseControlNormalizesThenGates == NoiseControlOutputs /\ NoDivisionByZero

\* The same for frames of one sample or more
NoiseControlOfNonEmptyFrame ==
  Len(last.frame) > 0 => (NoiseControlOutputs /\ NoDivisionByZero)

\* softNoiseGate with threshold 0 let a frame through without dividing by
\* the threshold
ZeroThresholdPassed ==
  /\ last.op = "softNoiseGate"
  /\ dspConfig.noiseGateThreshold = 0
  /\ Len(last.frame) > 0
  /\ last.divisors = <<Num(Len(last.frame))>>

\* a frame quieter than the gate's threshold was normalised to a level still
\* under it, and then attenuated
NormalizedThenAttenuated ==
  /\ last.op = "applyNoiseControl"
  /\ dspConfig.enableNormalization
  /\ dspConfig.enableNoiseGate
  /\ Lt(Num(0), calculateRMS(last.frame))
  /\ Lt(calculateRMS(last.frame), Num(dspConfig.normalizationTargetRMS))
  /\ dspConfig.normalizationTargetRMS < dspConfig.noiseGateThreshold
  /\ Lt(calculateRMS(result), Num(dspConfig.normalizationTargetRMS))

-----------------------------------------------------------------------------
(* The note utilities *)

\* frequencyToNote was called with a finite frequency above 0
NamedFrequency ==
  /\ last.op = "frequencyToNote"
  /\ IsNum(last.frequency)
  /\ last.frequency.v > 0

\* r = round(12 * log2(f / 440) + 69) for the frequency of the last call
RoundedNoteNumber == MathRound(NoteNumber(last.frequency.v), 1000)

\* r mod 12 in 0..11, for negative r as well
PitchClass == RoundedNoteNumber % 12

\* the octave number floor(r / 12) - 1, as text
OctaveText == IntToChars((RoundedNoteNumber \div 12) - 1)

\* the shorter of the two spellings of a pitch class, the sharp table's when
\* both are as long
ShorterSpelling(pitchClass) ==
  IF Len(NOTES_SHARP[pitchClass + 1]) <= Len(NOTES_FLAT[pitchClass + 1])
  THEN NOTES_SHARP[pitchClass + 1]
  ELSE NOTES_FLAT[pitchClass + 1]

\* C21: frequencyToNote names the note with the shorter of the sharp-table
\* and flat-table spellings for the pitch class, and when both spellings have
\* the same number of characters it uses the sharp-table spelling (pitch
\* class 1 is named C#, not Db).
NoteNamedWithShorterSpelling ==
  (NamedFrequency /\ ~Threw(result))
    => result.note = ShorterSpelling(PitchClass) \o OctaveText

\* What frequencyToNote does: the name is the flat table's for every pitch
\* class
NoteNamedWithFlatSpelling ==
  (NamedFrequency /\ ~Threw(result))
    => result.note = NOTES_FLAT[PitchClass + 1] \o OctaveText

\* frequencyToNote named a note whose two spellings differ
AccidentalNamed ==
  /\ NamedFrequency
  /\ ~Threw(result)
  /\ NOTES_SHARP[PitchClass + 1] # NOTES_FLAT[PitchClass + 1]

\* the result of frequencyToNote is as stated for the frequency it was given
NoteAsStated ==
  IF NamedFrequency
  THEN /\ ~Threw(result)
       /\ result.note \in {NOTES_SHARP[PitchClass + 1] \o OctaveText,
                           NOTES_FLAT[PitchClass + 1] \o OctaveText}
       /\ result.cents \in -50..50
  ELSE /\ ~Threw(result)
       /\ result.note = <<"U", "n", "k", "n", "o", "w", "n">>
       /\ result.frequency = Num(0)
       /\ result.cents = 0

\* C22: for every frequency > 0, with r = round(12 * log2(f / 440) + 69),
\* frequencyToNote returns a name made of the table entry at index r mod 12
\* in 0..11 followed by the octave floor(r / 12) - 1, and a cents offset in
\* [-50, 50], for negative r as well; for a frequency that is missing or
\* <= 0 it returns the note "Unknown" with frequency 0 and cents 0.
FrequencyNamedByPitchClass == last.op = "frequencyToNote" => NoteAsStated

\* The same for the frequencies whose rounded note number is not negative
\* or is a multiple of 12
FrequencyNamedFromNoteZero ==
  (last.op = "frequencyToNote"
     /\ (NamedFrequency => (RoundedNoteNumber >= 0 \/ PitchClass = 0)))
    => NoteAsStated

\* frequencyToNote named a note of a negative octave
NegativeOctaveNamed ==
  /\ NamedFrequency
  /\ ~Threw(result)
  /\ RoundedNoteNumber < 0

\* frequencyToNote was given a frequency half-way between two notes
QuarterToneNamed ==
  /\ NamedFrequency
  /\ ~Threw(result)
  /\ result.cents \in {-50, 50}

\* the letter and accidental of a text that fits the note pattern
NameOf(match) == <<ToUpperCase(match.letter)>> \o match.accidental

\* the name is an entry of one of the two spelling tables
IsTableEntry(name) ==
  IndexOf(NOTES_SHARP, name) >= 0 \/ IndexOf(NOTES_FLAT, name) >= 0

\* the index of a table entry, the same in whichever table holds it
SemitoneOf(name) ==
  IF IndexOf(NOTES_SHARP, name) >= 0 THEN IndexOf(NOTES_SHARP, name)
  ELSE IndexOf(NOTES_FLAT, name)

\* what parseExpectedNote is to return for a text: the number of a number
\* text, the frequency of a note name of the tables, no value otherwise
StatedValue(text) ==
  LET match == NoteMatch(Trim(text))
  IN IF IsNumberText(Trim(text)) THEN Num(parseFloat(Trim(text)))
     ELSE IF IsNull(match) THEN Null
     ELSE IF ~IsTableEntry(NameOf(match)) THEN Null
     ELSE Num(Pow2Semitones(A4_FREQUENCY * 1000,
                            SemitoneOf(NameOf(match))
                              + (parseInt(match.octaveStr) + 1) * 12 - 69))

\* C23: parseExpectedNote returns the number itself for a trimmed plain
\* decimal number; for a note name (letter A-G, optional # or b, optional
\* sign, one octave digit) whose letter and accidental are an entry of a
\* spelling table it returns 440 * 2^((semitone + (octave + 1) * 12 - 69) / 12)
\* with that entry's table index as semitone ("A4" and "440" both give 440);
\* for every other input, text that fits the note pattern but names no table
\* entry (E#, B#, Cb, Fb) and "H9" included, it returns no value.
ParsedAsStated ==
  last.op = "parseExpectedNote" => result = StatedValue(last.text)

\* The same for the texts that do not fit the note pattern or name an entry
\* of a table
ParsedAsStatedForTableNames ==
  (last.op = "parseExpectedNote"
     /\ \E match \in {NoteMatch(Trim(last.text))} :
           IsNull(match) \/ IsTableEntry(NameOf(match)))
    => result = StatedValue(last.text)

\* parseExpectedNote gave 440 Hz for "A4"
ParsedA4 ==
  /\ last.op = "parseExpectedNote"
  /\ last.text = <<"A", "4">>
  /\ result = Num(440000)

\* C24: round trip: for every input text for which parseExpectedNote returns
\* a value f, numeric inputs such as "0" included, centsOffFromReference(f, f)
\* equals 0.
RoundTripIsZeroCents ==
  last.op = "centsOffFromReference" => result = Num(0)

\* The same for the texts for which parseExpectedNote returns a value above 0
RoundTripOfPositiveIsZeroCents ==
  (last.op = "centsOffFromReference" /\ last.frequency.v > 0)
    => result = Num(0)

\* the round trip was made for a note name
RoundTripOfNoteName ==
  /\ last.op = "centsOffFromReference"
  /\ ~IsNumberText(Trim(last.text))
  /\ result = Num(0)

-----------------------------------------------------------------------------
(* The expected note and the deviation in the result *)

\* the caller's expected note as a label: the text as given, a number as Hz
\* with two decimals
RawLabel(input) ==
  IF input.t = "number" THEN HzText(input.n) ELSE input.s

\* the expected note resolves to a positive Hz value: a positive number, or a
\* text parseExpectedNote gives a positive value for
Resolves(input) ==
  IF input.t = "number" THEN input.n > 0
  ELSE GtZero(parseExpectedNote(input.s))

\* C25: the result carries expectedNote if and only if the caller supplied
\* an expectedNote option.  When the supplied value cannot be resolved to a
\* positive Hz value, the echo is the caller's raw input and no deviation is
\* produced; when no expectedNote is supplied, neither expectedNote nor
\* deviation is present.
ExpectedNoteEchoed ==
  Returned
    => /\ Has(last.opts, "expectedNote") <=> ~IsUndefined(result.expectedNote)
       /\ ~Has(last.opts, "expectedNote") => IsUndefined(result.deviation)
       /\ (Has(last.opts, "expectedNote") /\ ~Resolves(last.opts.expectedNote))
            => /\ result.expectedNote = Str(RawLabel(last.opts.expectedNote))
               /\ IsUndefined(result.deviation)

\* a frequency was detected and the expected note, which does not resolve,
\* came back as given
UnresolvedNoteEchoed ==
  /\ Returned
  /\ Has(last.opts, "expectedNote")
  /\ last.opts.expectedNote.t = "string"
  /\ ~Resolves(last.opts.expectedNote)
  /\ GtZero(result.frequency)
  /\ result.expectedNote = Str(last.opts.expectedNote.s)

\* the deviation of the reported frequency from the expected note, in tenths
\* of a cent
DeviationCents ==
  centsOffFromReference(result.frequency.v,
                        normalizeExpected(last.opts.expectedNote).v).v

\* the result carries a deviation
HasDeviation == Returned /\ ~IsUndefined(result.deviation)

\* <sign><magnitude> cents sharp|flat, the magnitude to one decimal place
SignedDeviationText(cents) ==
  (IF cents >= 0 THEN <<"+">> ELSE <<"-">>)
    \o ToFixed(Abs(cents) * 100, 1)
    \o <<" ", "c", "e", "n", "t", "s", " ">>
    \o (IF cents >= 0 THEN <<"s", "h", "a", "r", "p">> ELSE <<"f", "l", "a", "t">>)

\* C26: the deviation text has the form <sign><magnitude> cents sharp|flat
\* with the magnitude to one decimal place: a deviation >= 0 cents is
\* rendered with sign "+" and direction "sharp" ("+5.2 cents sharp"), a
\* deviation < 0 cents with sign "-" and direction "flat" ("-12.1 cents
\* flat").
DeviationSignedAndDirected ==
  HasDeviation => result.deviation = Str(SignedDeviationText(DeviationCents))

\* The same for the deviations that are not negative
SharpDeviationSigned ==
  (HasDeviation /\ DeviationCents >= 0)
    => result.deviation = Str(SignedDeviationText(DeviationCents))

\* What formatDeviation does with a negative deviation: the magnitude and
\* "flat", with no sign
FlatDeviationUnsigned ==
  (HasDeviation /\ DeviationCents < 0)
    => result.deviation = Str(Tail(SignedDeviationText(DeviationCents)))

\* the reported frequency is above the expected note
SharpDeviationReported == HasDeviation /\ DeviationCents > 0

-----------------------------------------------------------------------------
(* Two engine instances *)

\* the second instance after one logged call
PeerAfter(before, entry) ==
  IF entry.op = "processFrame"
  THEN Only({[before EXCEPT !.median = r.median, !.ema = r.ema,
                            !.result = r.result] :
               r \in {processFrame(before.sampleRate, before.dspConfig,
                                   before.median, before.ema,
                                   entry.frame, entry.opts)}})
  ELSE Only({[before EXCEPT !.dspConfig = u.dspConfig, !.median = u.median,
                            !.ema = u.ema] :
               u \in {updateConfig(before.dspConfig, before.median, before.ema,
                                   entry.config)}})

\* the second instance had it been constructed and given the first n calls
\* of its log, with no other instance in use
RECURSIVE PeerAlone(_)
PeerAlone(n) ==
  IF n = 0 THEN NewPeer(peer.constructed)
  ELSE Only({PeerAfter(before, peer.log[n]) : before \in {PeerAlone(n - 1)}})

\* C27: engine instances are isolated: any interleaving of processFrame and
\* updateConfig calls on one instance leaves the smoother state, the stored
\* configuration and every subsequent result of the other instance exactly
\* what they would be had the first instance never been used.
InstancesIsolated ==
  \E alone \in {PeerAlone(Len(peer.log))} :
     /\ peer.median = alone.median
     /\ peer.ema = alone.ema
     /\ peer.dspConfig = alone.dspConfig
     /\ peer.result = alone.result

\* the first instance was reconfigured and given a frame before the second
\* instance returned a result
BothInstancesUsed ==
  /\ calls > 0
  /\ \A engine \in PeerEngines : dspConfig # Merge(defaultDSPConfig, engine.config)
  /\ Len(peer.log) > 0
  /\ peer.log[Len(peer.log)].op = "processFrame"
  /\ ~Threw(peer.result)
  /\ GtZero(peer.result.frequency)

\* C28  Whenever the active mode is not "live", no live microphone stream,
\* live processor or live engine is active, for every interleaving of
\* startLiveMode with mode switches and start and stop clicks
LiveStoppedOutsideLiveMode ==
  app.activeMode # "live" =>
     /\ IsNull(app.liveStream)
     /\ IsNull(app.liveProcessor)
     /\ IsNull(app.liveEngine)
     /\ app.capturing = {}
     /\ app.connected = {}

\* C28  With no startLiveMode call waiting for the microphone, leaving live
\* mode leaves nothing running
LiveStoppedWhenNothingPending ==
  [][(app.pending = {} /\ app'.activeMode # "live" /\ last'.op = "setActiveMode")
       => (/\ IsNull(app'.liveStream) /\ IsNull(app'.liveProcessor)
           /\ IsNull(app'.liveEngine))]_vars

\* C28  The microphone is captured while the File tab is shown
CapturingOutsideLiveMode ==
  /\ app.activeMode # "live"
  /\ app.capturing # {}
  /\ ~IsNull(app.liveEngine)

\* detectPitch selected the lag yin.tau and interpolated around it
Interpolated ==
  /\ yin.done
  /\ yin.tau # -1
  /\ yin.tau + 1 < Len(yin.buffer) \div 2

\* d'(tau - 1) > d'(tau) and d'(tau + 1) >= d'(tau), the denominator
\* 2*s1 - s2 - s0 is negative, and the refined lag is within half a lag of tau
NeighboursAboveSelectedLag(dPrime, tau) ==
  LET s0 == dPrime[tau - 1]
      s1 == dPrime[tau]
      s2 == dPrime[tau + 1]
      betterTau == parabolicInterpolation(dPrime, tau)
  IN /\ IsNum(s0) /\ IsNum(s1) /\ IsNum(s2)
     /\ s0.v > s1.v
     /\ s2.v >= s1.v
     /\ 2 * s1.v - s2.v - s0.v < 0
     /\ IsNum(betterTau)
     /\ betterTau.v >= tau * 1000 - 500
     /\ betterTau.v <= tau * 1000 + 500

\* The pitch is finite and positive, between sampleRate / (halfLength - 1/2)
\* and sampleRate / 1.5
PitchFiniteAndPositive ==
  /\ IsNum(yin.pitch)
  /\ yin.pitch.v > 0
  /\ yin.pitch.v >= SDiv(yin.sampleRate * 1000000,
                         (Len(yin.buffer) \div 2) * 1000 - 500)
  /\ yin.pitch.v <= SDiv(yin.sampleRate * 1000000, 1500)

\* C29  Whenever detectPitch selects a lag tau and interpolates, the
\* neighbours satisfy d'(tau-1) > d'(tau) and d'(tau+1) >= d'(tau), the
\* denominator is strictly negative, the refined lag lies in
\* [tau - 1/2, tau + 1/2], and every reported pitch is finite and positive,
\* between sampleRate/(halfLength - 1/2) and sampleRate/1.5
InterpolationWellConditioned ==
  /\ Interpolated => NeighboursAboveSelectedLag(YinBuffer(yin.buffer), yin.tau)
  /\ (yin.done /\ yin.tau # -1) => PitchFiniteAndPositive

\* C29  The neighbours, the denominator and the refined lag are as stated
\* for every sample rate
InterpolationNeighboursAbove ==
  Interpolated => NeighboursAboveSelectedLag(YinBuffer(yin.buffer), yin.tau)

\* C29  The pitch is finite, positive and inside the stated range when the
\* sample rate is positive
PitchInRangeAtPositiveRate ==
  (yin.done /\ yin.tau # -1 /\ yin.sampleRate > 0) => PitchFiniteAndPositive

\* C29  A pitch that is zero or negative was reported
PitchNotPositive ==
  /\ Interpolated
  /\ IsNum(yin.pitch)
  /\ yin.pitch.v <= 0

\* Values of the two smoothing flags of a configuration
SmoothingFlags ==
  {[enableMedianSmoothing |-> FALSE],
   [enableMovingAverage |-> FALSE],
   [enableMedianSmoothing |-> FALSE, enableMovingAverage |-> FALSE],
   [enableMedianSmoothing |-> TRUE, enableMovingAverage |-> TRUE]}

\* Smoother parameters a caller may pass for one frame
SmootherParameters ==
  {[medianWindowSize |-> 1],
   [movingAverageAlpha |-> 1000],
   [medianWindowSize |-> 5, movingAverageAlpha |-> 100]}

\* the options of the last call with the settings put into its advancedConfig
WithAdvancedConfig(opts, settings) ==
  Merge(opts, [advancedConfig |->
                 Merge(IF Has(opts, "advancedConfig")
                       THEN opts.advancedConfig ELSE EmptyConfig, settings)])

\* the last call made again on the engine as it was, with the stored
\* configuration and the options given, reports the same frequency and leaves
\* the same smoothers
SameFrequencyWith(stored, opts) ==
  \E again \in {processFrame(sampleRate, stored, last.medianBefore,
                             last.emaBefore, last.frame, opts)} :
     /\ ~Threw(again.result)
     /\ again.result.frequency = result.frequency
     /\ again.median = median
     /\ again.ema = ema

\* C30  The smoothing applied by processFrame depends only on the per-call
\* smoothing option and on the smoothers the engine holds: for the same
\* engine state and frame the reported frequency is the same whatever the
\* effective configuration's enableMedianSmoothing and enableMovingAverage
\* are, and whatever medianWindowSize or movingAverageAlpha is passed in
\* the per-call advancedConfig
SmoothingIgnoresConfiguration ==
  Returned
    => /\ \A flags \in SmoothingFlags :
            SameFrequencyWith(Merge(dspConfig, flags), last.opts)
       /\ \A settings \in SmoothingFlags \cup SmootherParameters :
            SameFrequencyWith(dspConfig, WithAdvancedConfig(last.opts, settings))

\* C30  The smoothers changed the frequency reported for the last frame
SmoothedFrequencyReported ==
  /\ Returned
  /\ Detected(last.pitch)
  /\ IsNum(result.frequency)
  /\ result.frequency # last.pitch
  /\ Len(last.medianBefore.window) > 0
====
